---- MODULE Spec2Model ----
(***************************************************************************)
(* Launch Preparation Pipeline of llauncher-electron.                      *)
(*                                                                         *)
(* Several state machines share this module, each with its specification: *)
(*   SpecPool    downloadMultipleFiles (src/main/downloadManager.ts) as it *)
(*               runs on the JavaScript event loop: promise reactions and  *)
(*               async continuations are jobs of a FIFO microtask queue;   *)
(*   SpecFile    downloadFile, one task, attempt by attempt;               *)
(*   SpecLaunch  launchVersion / killRunningProcess / child process events *)
(*               (src/main/launchManager.ts) under the 'launch-version'    *)
(*               and 'kill-game' IPC handlers;                             *)
(*   SpecResolve getVersionDetails / mergeVersionDetails                   *)
(*               (the versions manager code of src/main/patchNotesManager.ts); *)
(*   SpecMergeLibs, SpecMergeArgs  mergeVersionDetails on explicit parent  *)
(*               and child definitions (library cases, argument cases);    *)
(*   SpecRule    checkRule and the evaluation of a rules array;            *)
(*   SpecClasspath  buildClasspath on a definition and a disk state;       *)
(*   SpecPlaceholders, SpecArguments  replacePlaceholders on a template,   *)
(*               processArguments on an arguments array;                   *)
(*   SpecProgress  two runs of downloadFile against the same network and   *)
(*               filesystem, one with a progress sink and one without;     *)
(*   SpecEnum    getRequiredInitialDownloads on a definition;              *)
(*   SpecAssets  getAssetDownloadTasks and the download run of its tasks;  *)
(*   SpecPoolSink  downloadMultipleFiles when downloadFile can reject;     *)
(*   SpecOsName  checkRule on OS names beyond those of OsName;             *)
(*   SpecOsVersion  checkRule on rules that carry an os.version;           *)
(*   SpecSupervisor  the launch machine with one launch request at a time; *)
(*   SpecNatives  extractNatives on a definition, a host and a disk state; *)
(*   SpecArgv    the construction of the java argument vector;             *)
(*   SpecClient  the client archive from enumeration to the classpath.     *)
(* A specification leaves the variables of the other machines unchanged.   *)
(***************************************************************************)
EXTENDS Integers, Sequences, FiniteSets, TLC

(* ------------------------------ bounds --------------------------------- *)
MaxTasks == 3        \* tasks handed to one downloadMultipleFiles run
MaxLimit == 2        \* largest parallelLimit explored

(* ------------------------------- state --------------------------------- *)
VARIABLES
  \* ---- downloadMultipleFiles ----
  poolPc,             \* "idle" | "executing" | "returned"
  nTasks,             \* tasks.length
  parallelLimit,      \* parallelLimit argument
  taskSha,            \* task -> TRUE when the task carries an expected sha1
  queue,              \* const queue = [...tasks]
  activeDownloads,    \* Array<Promise<DownloadResult>>, a promise is named by its task
  dl,                 \* task -> "queued" | "inflight" | "settled" (its downloadFile promise)
  dlResult,           \* task -> DownloadResult the promise settled with
  reactions,          \* task -> reactions registered on its promise, in order
  mq,                 \* the microtask queue
  workers,            \* invocations of execute(): [pc, ep, pending]
  running,            \* the execute() invocation running synchronously, 0 when none
  counts,             \* [successCount, failureCount, validationFailures]
  poolRet             \* value returned by downloadMultipleFiles

varsPool == <<poolPc, nTasks, parallelLimit, taskSha, queue, activeDownloads, dl,
              dlResult, reactions, mq, workers, running, counts, poolRet>>

VARIABLES
  dfPc,          \* position in downloadFile
  dfSha,         \* task.sha1 is present
  dfCalls,       \* calls of downloadFile made so far for this task
  attempts,      \* let attempts
  dfResult,      \* result.success / result.validationPassed / result.error set
  fileState,     \* destination: "absent" | "partial" | "bad" | "good"
                 \* ("good": complete content, hashing to task.sha1 when present)
  fileAtCall,    \* fileState when the current call started
  fileWrites,    \* writes and unlinks of the destination during the current call
  netRequests,   \* https.get calls issued during the current call
  failedAttempts,\* attempts of the current call that ended in failure
  lastStatus,    \* status of the last download-progress event sent
  backoffDelay   \* milliseconds waited before the next attempt

varsFile == <<dfPc, dfSha, dfCalls, attempts, dfResult, fileState, fileAtCall,
              fileWrites, netRequests, failedAttempts, lastStatus, backoffDelay>>

VARIABLES
  runningProcess, \* let runningProcess: ChildProcess | null; 0 is null
  proc,           \* child process -> "none" | "alive" | "failed" | "exited" | "errored"
  signals,        \* child process -> termination signals sent to it
  nLaunch,        \* launch requests handled so far
  nKill,          \* kill requests handled so far
  att             \* launch attempt -> its local state (see NewAttempt)

varsLaunch == <<runningProcess, proc, signals, nLaunch, nKill, att>>

VARIABLES
  parentOf,     \* version id -> inheritsFrom of its JSON (NoParent when it has none)
  cacheState,   \* version id -> "absent" | "corrupt" | "present": <versions>/<id>/<id>.json
  inManifest,   \* version id -> the main manifest lists it
  gvStack,      \* frames of the nested getVersionDetails calls, innermost last
  gvRet,        \* value returned by the callee to the innermost frame
  gvReq,        \* versionId of the top-level call
  gvOut,        \* value returned by the top-level call
  gvCalls,      \* top-level calls made
  dupIn,        \* the version id whose JSON lists one library name twice (NoParent: none)
  gvPrevReq,    \* versionId of the previous top-level call
  gvPrevOut,    \* value the previous top-level call returned
  cacheAtCall   \* cacheState when the current top-level call was made

varsResolve == <<parentOf, cacheState, inManifest, gvStack, gvRet, gvReq, gvOut, gvCalls,
                 dupIn, gvPrevReq, gvPrevOut, cacheAtCall>>

VARIABLES
  mInputs,      \* version definitions handed to mergeVersionDetails, root-most first
  mDone,        \* how many of them the result covers
  mMerged       \* the result of the merges made so far

varsMerge == <<mInputs, mDone, mMerged>>

VARIABLES
  ruleList,     \* [has, rules]: the rules array of a library or argument, has FALSE when absent
  ruleCtx,      \* the context argument and the host: [given, name, arch, features, platform, hostArch, version]
  rulePc,       \* "ready" | "done"
  ruleOut       \* result of the evaluation

varsRule == <<ruleList, ruleCtx, rulePc, ruleOut>>

VARIABLES
  cpDef,        \* versionDetails handed to buildClasspath: [id, inheritsFrom, libraries]
  cpFiles,      \* the paths that exist on disk
  cpHost,       \* OS name of the host the launcher runs on
  cpCalls,      \* buildClasspath calls made
  cpMap,        \* libraryPathMap at the end of the last call: entries [key, path]
  cpOut,        \* finalClassPathEntries of the last call
  cpFirst       \* finalClassPathEntries of the first call

varsCp == <<cpDef, cpFiles, cpHost, cpCalls, cpMap, cpOut, cpFirst>>

VARIABLES
  phTemplate,   \* template handed to replacePlaceholders: a string as a sequence of pieces
  phVars,       \* variables, in property order: pairs <<key, value>>
  phPc,         \* "ready" | "done"
  phOut         \* the string returned

varsPh == <<phTemplate, phVars, phPc, phOut>>

VARIABLES
  argList,      \* args handed to processArguments: literal and conditional entries
  argVars,      \* variables handed to processArguments
  argHost,      \* the host: [platform, hostArch] as os.platform() and os.arch() report
  argPc,        \* "ready" | "done"
  argOut        \* the strings returned, in order

varsArgs == <<argList, argVars, argHost, argPc, argOut>>

varsBase == <<varsPool, varsFile, varsLaunch, varsResolve, varsMerge, varsRule, varsCp>>
VARIABLES
  pgSha,        \* the task carries a sha1
  pgSink,       \* mainWindow during the run with a sink: "ok" | "destroyed"
  pgWith,       \* downloadFile(task, mainWindow): the run so far
  pgWithout     \* downloadFile(task, null) in the same environment: the run so far

varsProgress == <<pgSha, pgSink, pgWith, pgWithout>>

VARIABLES
  enDef,        \* versionDetails handed to getRequiredInitialDownloads
  enCtx,        \* the host at run time: [name, arch]
  enPc,         \* "ready" | "done"
  enTasks       \* the tasks returned, in order: [destination, label]

varsEnum == <<enDef, enCtx, enPc, enTasks>>

VARIABLES
  asIndex,      \* assetIndex.objects in property order: the hash of each name
  asPc,         \* "ready" | "done"
  asTasks       \* the tasks getAssetDownloadTasks returned: [destination, label]

varsAssets == <<asIndex, asPc, asTasks>>

VARIABLES
  nvIn,         \* extractNatives' inputs: [libraries, host, disk, corrupt, prepFails]
  nvPc,         \* "ready" | "done"
  nvOut         \* what the call did: [ret, extractionCount, events]

varsNatives == <<nvIn, nvPc, nvOut>>

VARIABLES
  avIn,         \* what launchVersion assembles the command from: [jvm, game,
                \* username, classpath, mainClass, settings, host]
  avPc,         \* "ready" | "done"
  avOut         \* finalCommandArgs

varsArgv == <<avIn, avPc, avOut>>

VARIABLES
  cjDef,        \* the resolved definition launched: [id, inheritsFrom, hasClient, libraries]
  cjPc,         \* "ready" | "enumerated" | "downloaded" | "failed" | "built"
  cjRun         \* [tasks, files, classpath]: the core tasks, the disk, the classpath

varsClient == <<cjDef, cjPc, cjRun>>

varsPrep == <<varsNatives, varsArgv, varsClient>>

varsMore == <<varsPh, varsArgs, varsProgress, varsEnum, varsAssets, varsPrep>>
varsPure == <<varsMerge, varsRule, varsCp, varsMore>>

(* ------------------------- program constants --------------------------- *)
MAX_ATTEMPTS_Four == 3 + 1
MAX_ATTEMPTS == 3


NoResult == [success |-> FALSE, validationPassed |-> FALSE, settled |-> FALSE]
ZeroCounts == [successCount |-> 0, failureCount |-> 0, validationFailures |-> 0]
Tasks == 1..nTasks

RECURSIVE SeqRemove(_, _)
\* activeDownloads.indexOf(p) followed by splice(index, 1)
SeqRemove(s, x) ==
  IF s = <<>> THEN <<>>
  ELSE IF Head(s) = x THEN Tail(s)
  ELSE <<Head(s)>> \o SeqRemove(Tail(s), x)

Range(s) == {s[i] : i \in 1..Len(s)}

\* The DownloadResult values downloadFile can settle its promise with.
DownloadFileResults(hasSha) ==
  {[success |-> TRUE, validationPassed |-> TRUE, settled |-> TRUE],
   [success |-> FALSE, validationPassed |-> FALSE, settled |-> TRUE]}
  \cup (IF hasSha
        THEN {[success |-> TRUE, validationPassed |-> FALSE, settled |-> TRUE]}
        ELSE {})

\* as Tally, a validation failure counted as a failure and as a success
TallyValidationTwice(c, r) ==
  IF r.success /\ r.validationPassed
  THEN [c EXCEPT !.successCount = @ + 1]
  ELSE [c EXCEPT !.failureCount = @ + 1,
                 !.successCount = IF r.success /\ ~r.validationPassed THEN @ + 1 ELSE @,
                 !.validationFailures =
                    IF r.success /\ ~r.validationPassed THEN @ + 1 ELSE @]
\* The outcome counting of the .then callback of downloadMultipleFiles.
Tally(c, r) ==
  IF r.success /\ r.validationPassed
  THEN [c EXCEPT !.successCount = @ + 1]
  ELSE [c EXCEPT !.failureCount = @ + 1,
                 !.validationFailures =
                    IF r.success /\ ~r.validationPassed THEN @ + 1 ELSE @]

PoolIdle ==
  /\ poolPc = "idle"
  /\ nTasks = 0
  /\ parallelLimit = 1
  /\ taskSha = <<>>
  /\ queue = <<>>
  /\ activeDownloads = <<>>
  /\ dl = <<>>
  /\ dlResult = <<>>
  /\ reactions = <<>>
  /\ mq = <<>>
  /\ workers = <<>>
  /\ running = 0
  /\ counts = ZeroCounts
  /\ poolRet = ZeroCounts

\* State at the call downloadMultipleFiles(tasks, parallelLimit, mainWindow).
PoolInit ==
  /\ poolPc = "idle"
  /\ nTasks \in 0..MaxTasks
  /\ parallelLimit \in 1..MaxLimit
  /\ taskSha \in [1..nTasks -> BOOLEAN]
  /\ queue = [i \in 1..nTasks |-> i]
  /\ activeDownloads = <<>>
  /\ dl = [i \in 1..nTasks |-> "queued"]
  /\ dlResult = [i \in 1..nTasks |-> NoResult]
  /\ reactions = [i \in 1..nTasks |-> <<>>]
  /\ mq = <<>>
  /\ workers = <<>>
  /\ running = 0
  /\ counts = ZeroCounts
  /\ poolRet = ZeroCounts

Job(kind, w, ep, p) == [kind |-> kind, w |-> w, ep |-> ep, p |-> p]
NewWorker == [pc |-> "run", ep |-> 0, pending |-> {}]

\* await execute(): the first invocation of execute starts running.
PoolCall ==
  /\ UNCHANGED <<varsFile, varsLaunch, varsResolve, varsPure>>
  /\ poolPc = "idle"
  /\ poolPc' = "executing"
  /\ workers' = <<NewWorker>>
  /\ running' = 1
  /\ UNCHANGED <<nTasks, parallelLimit, taskSha, queue, activeDownloads, dl,
                 dlResult, reactions, mq, counts, poolRet>>

\* One iteration of `while (queue.length > 0)` in execute(): shift a task,
\* call downloadFile, push its promise, register the .then callback, and
\* await Promise.race(activeDownloads) when the pool is full.
ExecStart ==
  /\ UNCHANGED <<varsFile, varsLaunch, varsResolve, varsPure>>
  /\ running # 0
  /\ workers[running].pc = "run"
  /\ queue # <<>>
  /\ LET w == running
         t == Head(queue)
         act == Append(activeDownloads, t)
         full == Len(act) >= parallelLimit
         ep == workers[w].ep + 1
         withThen == [reactions EXCEPT ![t] = Append(@, Job("then", 0, 0, t))]
     IN /\ queue' = Tail(queue)
        /\ dl' = [dl EXCEPT ![t] = "inflight"]
        /\ activeDownloads' = act
        /\ IF full
           THEN /\ reactions' =
                     [p \in Tasks |->
                        IF p \in Range(act) /\ dl'[p] = "inflight"
                        THEN Append(withThen[p], Job("race", w, ep, p))
                        ELSE withThen[p]]
                /\ mq' = mq \o SelectSeq(
                                  [i \in 1..Len(act) |->
                                     Job(IF dl'[act[i]] = "rejected" THEN "race_rej" ELSE "race",
                                         w, ep, act[i])],
                                  LAMBDA j : dl'[j.p] # "inflight")
                /\ workers' = [workers EXCEPT ![w] = [pc |-> "race", ep |-> ep, pending |-> {}]]
                /\ running' = 0
           ELSE /\ reactions' = withThen
                /\ UNCHANGED <<mq, workers, running>>
  /\ UNCHANGED <<poolPc, nTasks, parallelLimit, taskSha, dlResult, counts, poolRet>>

\* The queue is empty: await Promise.all(activeDownloads).
ExecAwaitAll ==
  /\ UNCHANGED <<varsFile, varsLaunch, varsResolve, varsPure>>
  /\ running # 0
  /\ workers[running].pc = "run"
  /\ queue = <<>>
  /\ LET w == running
         ep == workers[w].ep + 1
         pend == {p \in Range(activeDownloads) : dl[p] # "settled"}
     IN /\ reactions' = [p \in Tasks |->
                           IF p \in pend /\ dl[p] = "inflight"
                           THEN Append(reactions[p], Job("all", w, ep, p))
                           ELSE reactions[p]]
        /\ IF pend = {}
           THEN /\ workers' = [workers EXCEPT ![w] = [pc |-> "resuming_all", ep |-> ep, pending |-> {}]]
                /\ mq' = Append(mq, Job("resume", w, ep, 0))
           ELSE /\ workers' = [workers EXCEPT ![w] = [pc |-> "all", ep |-> ep, pending |-> pend]]
                /\ mq' = mq \o SelectSeq(
                                  [i \in 1..Len(activeDownloads) |->
                                     Job("all_rej", w, ep, activeDownloads[i])],
                                  LAMBDA j : dl[j.p] = "rejected")
        /\ running' = 0
  /\ UNCHANGED <<poolPc, nTasks, parallelLimit, taskSha, queue, activeDownloads,
                 dl, dlResult, counts, poolRet>>

\* downloadFile(task) returns: its promise settles and the reactions
\* registered on it are queued in registration order.  An I/O callback runs
\* only when the microtask queue has drained.
Settle(t) ==
  /\ UNCHANGED <<varsFile, varsLaunch, varsResolve, varsPure>>
  /\ poolPc = "executing"
  /\ running = 0
  /\ mq = <<>>
  /\ dl[t] = "inflight"
  /\ \E r \in DownloadFileResults(taskSha[t]) :
       dlResult' = [dlResult EXCEPT ![t] = r]
  /\ dl' = [dl EXCEPT ![t] = "settled"]
  /\ mq' = reactions[t]
  /\ UNCHANGED <<poolPc, nTasks, parallelLimit, taskSha, queue, activeDownloads,
                 reactions, workers, running, counts, poolRet>>

\* The .then callback of a download promise.
RunThen ==
  /\ UNCHANGED <<varsFile, varsLaunch, varsResolve, varsPure>>
  /\ running = 0
  /\ mq # <<>>
  /\ Head(mq).kind = "then"
  /\ LET p == Head(mq).p
         act == SeqRemove(activeDownloads, p)
     IN /\ counts' = Tally(counts, dlResult[p])
        /\ activeDownloads' = act
        /\ IF Len(act) < parallelLimit /\ queue # <<>>
           THEN /\ workers' = Append(workers, NewWorker)
                /\ running' = Len(workers) + 1
           ELSE UNCHANGED <<workers, running>>
  /\ mq' = Tail(mq)
  /\ UNCHANGED <<poolPc, nTasks, parallelLimit, taskSha, queue, dl, dlResult,
                 reactions, poolRet>>

\* The reaction Promise.race registered on one of its promises.
RunRaceReaction ==
  /\ UNCHANGED <<varsFile, varsLaunch, varsResolve, varsPure>>
  /\ running = 0
  /\ mq # <<>>
  /\ Head(mq).kind = "race"
  /\ LET j == Head(mq)
     IN IF workers[j.w].pc = "race" /\ workers[j.w].ep = j.ep
        THEN /\ workers' = [workers EXCEPT ![j.w].pc = "resuming"]
             /\ mq' = Append(Tail(mq), Job("resume", j.w, j.ep, 0))
        ELSE /\ mq' = Tail(mq)
             /\ UNCHANGED workers
  /\ UNCHANGED <<poolPc, nTasks, parallelLimit, taskSha, queue, activeDownloads,
                 dl, dlResult, reactions, running, counts, poolRet>>

\* The reaction Promise.all registered on one of its promises.
RunAllReaction ==
  /\ UNCHANGED <<varsFile, varsLaunch, varsResolve, varsPure>>
  /\ running = 0
  /\ mq # <<>>
  /\ Head(mq).kind = "all"
  /\ LET j == Head(mq)
         left == workers[j.w].pending \ {j.p}
     IN IF left = {}
        THEN /\ workers' = [workers EXCEPT ![j.w].pc = "resuming_all", ![j.w].pending = {}]
             /\ mq' = Append(Tail(mq), Job("resume", j.w, j.ep, 0))
        ELSE /\ workers' = [workers EXCEPT ![j.w].pending = left]
             /\ mq' = Tail(mq)
  /\ UNCHANGED <<poolPc, nTasks, parallelLimit, taskSha, queue, activeDownloads,
                 dl, dlResult, reactions, running, counts, poolRet>>

\* An execute() invocation continues after its await.
RunResume ==
  /\ UNCHANGED <<varsFile, varsLaunch, varsResolve, varsPure>>
  /\ running = 0
  /\ mq # <<>>
  /\ Head(mq).kind = "resume"
  /\ LET w == Head(mq).w
     IN IF workers[w].pc = "resuming"
        THEN /\ workers' = [workers EXCEPT ![w].pc = "run"]
             /\ running' = w
             /\ mq' = Tail(mq)
        ELSE /\ workers' = [workers EXCEPT ![w].pc = "done"]
             /\ running' = 0
             /\ mq' = IF w = 1 THEN Append(Tail(mq), Job("main", 0, 0, 0)) ELSE Tail(mq)
  /\ UNCHANGED <<poolPc, nTasks, parallelLimit, taskSha, queue, activeDownloads,
                 dl, dlResult, reactions, counts, poolRet>>

\* downloadMultipleFiles continues after `await execute()` and returns.
PoolReturn ==
  /\ UNCHANGED <<varsFile, varsLaunch, varsResolve, varsPure>>
  /\ running = 0
  /\ mq # <<>>
  /\ Head(mq).kind = "main"
  /\ poolPc' = "returned"
  /\ poolRet' = counts
  /\ mq' = Tail(mq)
  /\ UNCHANGED <<nTasks, parallelLimit, taskSha, queue, activeDownloads, dl,
                 dlResult, reactions, workers, running, counts>>

\* downloadFile(task) rejects: the sendProgress call of its catch block threw
\* after the last attempt.  The reactions registered on the promise are
\* queued as rejections, in registration order.
SettleRejected(t) ==
  /\ UNCHANGED <<varsFile, varsLaunch, varsResolve, varsPure>>
  /\ poolPc = "executing"
  /\ running = 0
  /\ mq = <<>>
  /\ dl[t] = "inflight"
  /\ dl' = [dl EXCEPT ![t] = "rejected"]
  /\ mq' = [i \in DOMAIN reactions[t] |->
              [reactions[t][i] EXCEPT !.kind = CASE @ = "then" -> "then_rej"
                                                [] @ = "race" -> "race_rej"
                                                [] OTHER -> "all_rej"]]
  /\ UNCHANGED <<poolPc, nTasks, parallelLimit, taskSha, queue, activeDownloads,
                 dlResult, reactions, workers, running, counts, poolRet>>

\* A reaction to a rejected download promise: the .then callback is skipped
\* (the promise it returned rejects, unhandled, and the download stays in
\* activeDownloads); a Promise.race or Promise.all still pending rejects.
RunRejectedReaction ==
  /\ UNCHANGED <<varsFile, varsLaunch, varsResolve, varsPure>>
  /\ running = 0
  /\ mq # <<>>
  /\ Head(mq).kind \in {"then_rej", "race_rej", "all_rej"}
  /\ LET j == Head(mq)
         waiting == /\ j.kind # "then_rej"
                    /\ workers[j.w].pc = (IF j.kind = "race_rej" THEN "race" ELSE "all")
                    /\ workers[j.w].ep = j.ep
     IN IF waiting
        THEN /\ workers' = [workers EXCEPT ![j.w].pc = "throwing"]
             /\ mq' = Append(Tail(mq), Job("throw", j.w, j.ep, 0))
        ELSE /\ mq' = Tail(mq)
             /\ UNCHANGED workers
  /\ UNCHANGED <<poolPc, nTasks, parallelLimit, taskSha, queue, activeDownloads,
                 dl, dlResult, reactions, running, counts, poolRet>>

\* The await of an execute() invocation throws: the invocation rejects; the
\* first one is the one downloadMultipleFiles awaits.
RunThrow ==
  /\ UNCHANGED <<varsFile, varsLaunch, varsResolve, varsPure>>
  /\ running = 0
  /\ mq # <<>>
  /\ Head(mq).kind = "throw"
  /\ LET w == Head(mq).w
     IN /\ workers' = [workers EXCEPT ![w].pc = "rejected"]
        /\ mq' = IF w = 1 THEN Append(Tail(mq), Job("main_rej", 0, 0, 0)) ELSE Tail(mq)
  /\ UNCHANGED <<poolPc, nTasks, parallelLimit, taskSha, queue, activeDownloads,
                 dl, dlResult, reactions, running, counts, poolRet>>

\* `await execute()` throws: downloadMultipleFiles rejects.
PoolReject ==
  /\ UNCHANGED <<varsFile, varsLaunch, varsResolve, varsPure>>
  /\ running = 0
  /\ mq # <<>>
  /\ Head(mq).kind = "main_rej"
  /\ poolPc' = "rejected"
  /\ mq' = Tail(mq)
  /\ UNCHANGED <<nTasks, parallelLimit, taskSha, queue, activeDownloads, dl,
                 dlResult, reactions, workers, running, counts, poolRet>>

NextPool ==
  \/ PoolCall
  \/ ExecStart
  \/ ExecAwaitAll
  \/ \E t \in Tasks : Settle(t)
  \/ RunThen
  \/ RunRaceReaction
  \/ RunAllReaction
  \/ RunResume
  \/ PoolReturn

\* The pool when downloadFile can reject.
NextPoolSink ==
  \/ PoolCall
  \/ ExecStart
  \/ ExecAwaitAll
  \/ \E t \in Tasks : Settle(t)
  \/ \E t \in Tasks : SettleRejected(t)
  \/ RunThen
  \/ RunRaceReaction
  \/ RunAllReaction
  \/ RunRejectedReaction
  \/ RunResume
  \/ RunThrow
  \/ PoolReturn
  \/ PoolReject

InFlight == {t \in Tasks : dl[t] = "inflight"}

(* ========================== downloadFile =============================== *)
MaxCalls == 2        \* downloadFile calls made for the one task (a re-run)


FileStates == {"absent", "partial", "bad", "good"}
FreshResult == [success |-> FALSE, validationPassed |-> FALSE, error |-> FALSE]

FileIdle ==
  /\ dfPc = "idle"
  /\ dfSha = FALSE
  /\ dfCalls = 0
  /\ attempts = 0
  /\ dfResult = FreshResult
  /\ fileState = "absent"
  /\ fileAtCall = "absent"
  /\ fileWrites = 0
  /\ netRequests = 0
  /\ failedAttempts = 0
  /\ lastStatus = "none"
  /\ backoffDelay = 0

\* A task and the state of its destination before downloadFile is called.
FileInit ==
  /\ dfPc = "idle"
  /\ dfSha \in BOOLEAN
  /\ dfCalls = 0
  /\ attempts = 0
  /\ dfResult = FreshResult
  /\ fileState \in FileStates
  /\ fileAtCall = fileState
  /\ fileWrites = 0
  /\ netRequests = 0
  /\ failedAttempts = 0
  /\ lastStatus = "none"
  /\ backoffDelay = 0

\* calculateFileSha1(destination) === sha1
Sha1MatchesNever(file) == FALSE
Sha1Matches(file) == file = "good"

RECURSIVE Pow2(_)
Pow2(n) == IF n = 0 THEN 1 ELSE 2 * Pow2(n - 1)

\* downloadFile(task, mainWindow) is called: the locals are initialised.
DfCall ==
  /\ UNCHANGED <<varsPool, varsLaunch, varsResolve, varsPure>>
  /\ dfPc \in {"idle", "done"}
  /\ dfCalls < MaxCalls
  /\ dfCalls' = dfCalls + 1
  /\ dfPc' = "loop"
  /\ attempts' = 0
  /\ dfResult' = FreshResult
  /\ fileAtCall' = fileState
  /\ fileWrites' = 0
  /\ netRequests' = 0
  /\ failedAttempts' = 0
  /\ lastStatus' = "none"
  /\ backoffDelay' = 0
  /\ UNCHANGED <<dfSha, fileState>>

\* while (attempts < MAX_ATTEMPTS) { attempts++; reset result ... }, and the
\* fallback after the loop.
DfLoop ==
  /\ UNCHANGED <<varsPool, varsLaunch, varsResolve, varsPure>>
  /\ dfPc = "loop"
  /\ IF attempts < MAX_ATTEMPTS
     THEN /\ attempts' = attempts + 1
          /\ dfResult' = FreshResult
          /\ dfPc' = "mkdir"
          /\ UNCHANGED lastStatus
     ELSE /\ dfResult' = [dfResult EXCEPT !.success = FALSE, !.error = TRUE]
          /\ lastStatus' = "Error"
          /\ dfPc' = "done"
          /\ UNCHANGED attempts
  /\ UNCHANGED <<dfSha, dfCalls, fileState, fileAtCall, fileWrites, netRequests,
                 failedAttempts, backoffDelay>>

\* await fs.promises.mkdir(dir, {recursive: true}); it cannot fail for the
\* directory of a file that exists.
DfMkdir ==
  /\ UNCHANGED <<varsPool, varsLaunch, varsResolve, varsPure>>
  /\ dfPc = "mkdir"
  /\ \/ dfPc' = "precheck"
     \/ fileState = "absent" /\ dfPc' = "catch"
  /\ UNCHANGED <<dfSha, dfCalls, attempts, dfResult, fileState, fileAtCall,
                 fileWrites, netRequests, failedAttempts, lastStatus, backoffDelay>>

\* Pre-download validation of an existing destination.
DfPrecheck ==
  /\ UNCHANGED <<varsPool, varsLaunch, varsResolve, varsPure>>
  /\ dfPc = "precheck"
  /\ IF dfSha /\ fileState # "absent"
     THEN IF Sha1Matches(fileState)
          THEN /\ lastStatus' = "Validated"
               /\ dfResult' = [dfResult EXCEPT !.success = TRUE, !.validationPassed = TRUE]
               /\ dfPc' = "done"
          ELSE /\ lastStatus' = "Validating"
               /\ dfPc' = "download"
               /\ UNCHANGED dfResult
     ELSE /\ dfPc' = "download"
          /\ UNCHANGED <<lastStatus, dfResult>>
  /\ UNCHANGED <<dfSha, dfCalls, attempts, fileState, fileAtCall, fileWrites,
                 netRequests, failedAttempts, backoffDelay>>

\* sendProgress(DOWNLOADING), fs.createWriteStream(destination), https.get(url)
DfRequest ==
  /\ UNCHANGED <<varsPool, varsLaunch, varsResolve, varsPure>>
  /\ dfPc = "download"
  /\ lastStatus' = "Downloading"
  /\ fileState' = "partial"
  /\ fileWrites' = fileWrites + 1
  /\ netRequests' = netRequests + 1
  /\ dfPc' = "fetching"
  /\ UNCHANGED <<dfSha, dfCalls, attempts, dfResult, fileAtCall, failedAttempts,
                 backoffDelay>>

\* The request ends: non-200 status, request error or timeout (the partial
\* file is unlinked, which can itself fail), file stream error, or finish.
DfResponse ==
  /\ UNCHANGED <<varsPool, varsLaunch, varsResolve, varsPure>>
  /\ dfPc = "fetching"
  /\ \/ /\ dfPc' = "catch"                       \* statusCode !== 200
        /\ UNCHANGED <<fileState, fileWrites, dfResult, lastStatus>>
     \/ /\ dfPc' = "catch"                       \* req 'error' / timeout
        /\ \/ fileState' = "absent" /\ fileWrites' = fileWrites + 1
           \/ UNCHANGED <<fileState, fileWrites>>
        /\ UNCHANGED <<dfResult, lastStatus>>
     \/ /\ dfPc' = "catch"                       \* fileStream 'error'
        /\ UNCHANGED <<fileState, fileWrites, dfResult, lastStatus>>
     \/ /\ dfPc' = "postvalidate"                \* fileStream 'finish'
        /\ fileState' \in {"good", "bad"}
        /\ lastStatus' = "Downloading"
        /\ dfResult' = [dfResult EXCEPT !.success = TRUE]
        /\ UNCHANGED fileWrites
  /\ UNCHANGED <<dfSha, dfCalls, attempts, fileAtCall, netRequests,
                 failedAttempts, backoffDelay>>

\* Post-download validation.
DfPostValidate ==
  /\ UNCHANGED <<varsPool, varsLaunch, varsResolve, varsPure>>
  /\ dfPc = "postvalidate"
  /\ IF dfSha
     THEN IF Sha1Matches(fileState)
          THEN /\ dfResult' = [dfResult EXCEPT !.validationPassed = TRUE]
               /\ lastStatus' = "Validated"
               /\ dfPc' = "done"
               /\ UNCHANGED <<fileState, fileWrites, failedAttempts>>
          ELSE /\ dfResult' = [dfResult EXCEPT !.validationPassed = FALSE, !.error = TRUE]
               /\ lastStatus' = "Validation Failed"
               /\ IF attempts < MAX_ATTEMPTS
                  THEN /\ \/ fileState' = "absent" /\ fileWrites' = fileWrites + 1
                          \/ UNCHANGED <<fileState, fileWrites>>
                       /\ dfPc' = "catch"
                       /\ UNCHANGED failedAttempts
                  ELSE /\ dfPc' = "done"
                       /\ failedAttempts' = failedAttempts + 1
                       /\ UNCHANGED <<fileState, fileWrites>>
     ELSE /\ dfResult' = [dfResult EXCEPT !.validationPassed = TRUE]
          /\ lastStatus' = "Downloaded (No Checksum)"
          /\ dfPc' = "done"
          /\ UNCHANGED <<fileState, fileWrites, failedAttempts>>
  /\ UNCHANGED <<dfSha, dfCalls, attempts, fileAtCall, netRequests, backoffDelay>>

\* catch (error): the attempt failed; give up after MAX_ATTEMPTS, else back off.
DfCatch ==
  /\ UNCHANGED <<varsPool, varsLaunch, varsResolve, varsPure>>
  /\ dfPc = "catch"
  /\ dfResult' = [dfResult EXCEPT !.success = FALSE, !.error = TRUE]
  /\ failedAttempts' = failedAttempts + 1
  /\ IF attempts >= MAX_ATTEMPTS
     THEN /\ lastStatus' = "Error"
          /\ dfPc' = "done"
          /\ UNCHANGED backoffDelay
     ELSE /\ backoffDelay' = 1000 * Pow2(attempts - 1)
          /\ dfPc' = "backoff"
          /\ UNCHANGED lastStatus
  /\ UNCHANGED <<dfSha, dfCalls, attempts, fileState, fileAtCall, fileWrites,
                 netRequests>>

\* setTimeout(resolveDelay, delay) fires.
DfBackoff ==
  /\ UNCHANGED <<varsPool, varsLaunch, varsResolve, varsPure>>
  /\ dfPc = "backoff"
  /\ dfPc' = "loop"
  /\ UNCHANGED <<dfSha, dfCalls, attempts, dfResult, fileState, fileAtCall,
                 fileWrites, netRequests, failedAttempts, lastStatus, backoffDelay>>

NextFile ==
  \/ DfCall
  \/ DfLoop
  \/ DfMkdir
  \/ DfPrecheck
  \/ DfRequest
  \/ DfResponse
  \/ DfPostValidate
  \/ DfCatch
  \/ DfBackoff

(* ===================== launchVersion / supervisor ====================== *)
MaxLaunches == 2     \* 'launch-version' requests handled
MaxRunTasks == 1     \* tasks of one download run of a launch attempt
MaxKills == 1        \* 'kill-game' requests handled
MaxSoloLaunches == 1 \* 'launch-version' requests handled by the supervisor on its own


Attempts == 1..MaxLaunches
NoRun == [ran |-> FALSE, failureCount |-> 0, validationFailures |-> 0]
NewAttempt ==
  [pc |-> "new",         \* "new" | "core_dl" | "read_index" | "asset_dl" |
                         \* "natives" | "mkdir_game" | "ended"
   hasArgs |-> TRUE,     \* versionDetails.arguments is present
   sawRunning |-> FALSE, \* runningProcess was set when launchVersion was invoked
   core |-> NoRun,       \* initialResults
   assets |-> NoRun,     \* assetResults
   natives |-> "none",   \* nativesExtracted: "none" | "ok" | "failed"
   errors |-> 0,         \* launch-status events with status 'error' emitted
   log |-> <<>>,         \* launch-status events emitted, in order
   hist |-> <<>>,        \* pipeline stages completed, in order
   ret |-> "none",       \* how the attempt ended
   pid |-> 0]            \* the child process it spawned, 0 when none

LaunchInit ==
  /\ runningProcess = 0
  /\ proc = [p \in Attempts |-> "none"]
  /\ signals = [p \in Attempts |-> 0]
  /\ nLaunch = 0
  /\ nKill = 0
  /\ att = [a \in Attempts |-> NewAttempt]

RECURSIVE TallyAll(_, _)
\* The counters of a downloadMultipleFiles run over the results of its tasks.
TallyAll(c, rs) == IF rs = <<>> THEN c ELSE TallyAll(Tally(c, Head(rs)), Tail(rs))

\* The aggregates a download run over 1..MaxRunTasks tasks can return.
RunOutcomes ==
  {[ran |-> TRUE,
    failureCount |-> TallyAll(ZeroCounts, rs).failureCount,
    validationFailures |-> TallyAll(ZeroCounts, rs).validationFailures] :
      rs \in UNION {[1..n -> DownloadFileResults(TRUE)] : n \in 1..MaxRunTasks}}

\* initialResults.failureCount > 0 || initialResults.validationFailures > 0
RunFailedValidationOnly(r) == r.validationFailures > 0
RunFailed(r) == r.failureCount > 0 \/ r.validationFailures > 0

\* mainWindow.webContents.send('launch-status', {status: 'error', ...}) and return
EndWithError(rec, how) ==
  [rec EXCEPT !.pc = "ended", !.ret = how, !.errors = @ + 1, !.log = Append(@, "error")]

Emit(rec, status) == [rec EXCEPT !.log = Append(@, status)]
Stage(rec, stage) == [rec EXCEPT !.hist = Append(@, stage)]

\* ipcMain.handle('launch-version'): the handler prepares the call (settings,
\* manifest, version details) and invokes launchVersion, which runs up to
\* its first await.
LaunchRequestWithin(limit) ==
  /\ UNCHANGED <<varsPool, varsFile, varsResolve, varsPure>>
  /\ nLaunch < limit
  /\ nLaunch' = nLaunch + 1
  /\ LET a == nLaunch + 1
     IN \/ \* the handler's setup throws: its catch reports the error
           /\ att' = [att EXCEPT ![a] = EndWithError(@, "setup_failed")]
           /\ UNCHANGED runningProcess
        \/ \* versionDetails.arguments is undefined: the logging statements
           \* ahead of the try block dereference it and launchVersion rejects
           /\ att' = [att EXCEPT ![a] = [@ EXCEPT !.pc = "ended", !.ret = "threw",
                                                 !.hasArgs = FALSE,
                                                 !.sawRunning = (runningProcess # 0)]]
           /\ UNCHANGED runningProcess
        \/ /\ runningProcess # 0
           /\ att' = [att EXCEPT ![a] =
                        EndWithError([@ EXCEPT !.sawRunning = TRUE], "already_running")]
           /\ UNCHANGED runningProcess
        \/ \* getRequiredInitialDownloads throws inside the try block
           /\ runningProcess = 0
           /\ att' = [att EXCEPT ![a] = EndWithError(Emit(@, "preparing"), "exception")]
           /\ runningProcess' = 0
        \/ \* initialDownloads.length > 0: the core download run starts
           /\ runningProcess = 0
           /\ att' = [att EXCEPT ![a] =
                        [Emit(Emit(@, "preparing"), "downloading") EXCEPT !.pc = "core_dl"]]
           /\ UNCHANGED runningProcess
        \/ \* no initial download: on to reading the asset index
           /\ runningProcess = 0
           /\ att' = [att EXCEPT ![a] =
                        [Emit(Emit(@, "preparing"), "preparing") EXCEPT !.pc = "read_index"]]
           /\ UNCHANGED runningProcess
  /\ UNCHANGED <<proc, signals, nKill>>

LaunchRequest == LaunchRequestWithin(MaxLaunches)

\* The core download run returns.
CoreDone(a) ==
  /\ UNCHANGED <<varsPool, varsFile, varsResolve, varsPure>>
  /\ att[a].pc = "core_dl"
  /\ \E r \in RunOutcomes :
       LET rec == Stage([att[a] EXCEPT !.core = r], "core")
       IN att' = [att EXCEPT ![a] =
                    IF RunFailed(r)
                    THEN EndWithError(rec, "download_failed")
                    ELSE [Emit(rec, "preparing") EXCEPT !.pc = "read_index"]]
  /\ UNCHANGED <<runningProcess, proc, signals, nLaunch, nKill>>

\* readAssetIndex returns and the asset tasks are enumerated.
IndexRead(a) ==
  /\ UNCHANGED <<varsPool, varsFile, varsResolve, varsPure>>
  /\ att[a].pc = "read_index"
  /\ \/ \* the index is missing or unparsable
        /\ att' = [att EXCEPT ![a] = EndWithError(@, "index_failed")]
        /\ UNCHANGED runningProcess
     \/ \* getAssetDownloadTasks throws on a malformed index
        /\ att' = [att EXCEPT ![a] = EndWithError(@, "exception")]
        /\ runningProcess' = 0
     \/ \* assetDownloads.length > 0
        /\ att' = [att EXCEPT ![a] =
                     [Emit(Stage(@, "index"), "downloading") EXCEPT !.pc = "asset_dl"]]
        /\ UNCHANGED runningProcess
     \/ \* no asset to download: extractNatives is called
        /\ att' = [att EXCEPT ![a] =
                     [Emit(Emit(Stage(@, "index"), "preparing"), "preparing")
                        EXCEPT !.pc = "natives"]]
        /\ UNCHANGED runningProcess
  /\ UNCHANGED <<proc, signals, nLaunch, nKill>>

\* The asset download run returns.
AssetDone(a) ==
  /\ UNCHANGED <<varsPool, varsFile, varsResolve, varsPure>>
  /\ att[a].pc = "asset_dl"
  /\ \E r \in RunOutcomes :
       LET rec == Stage([att[a] EXCEPT !.assets = r], "assets")
       IN att' = [att EXCEPT ![a] =
                    IF RunFailed(r)
                    THEN EndWithError(rec, "assets_failed")
                    ELSE [Emit(Emit(rec, "preparing"), "preparing") EXCEPT !.pc = "natives"]]
  /\ UNCHANGED <<runningProcess, proc, signals, nLaunch, nKill>>

\* extractNatives returns; on success launchVersion goes on to build the
\* classpath and the variables, up to `await fs.promises.mkdir(gameDirectory)`.
NativesDone(a) ==
  /\ UNCHANGED <<varsPool, varsFile, varsResolve, varsPure>>
  /\ att[a].pc = "natives"
  /\ \/ \* preparing the natives directory failed: extractNatives sent the error
        /\ att' = [att EXCEPT ![a] =
                     EndWithError([@ EXCEPT !.natives = "failed"], "natives_failed")]
        /\ UNCHANGED runningProcess
     \/ \* buildClasspath (or the code around it) throws
        /\ att' = [att EXCEPT ![a] =
                     EndWithError(Emit(Stage([@ EXCEPT !.natives = "ok"], "natives"),
                                       "preparing"), "exception")]
        /\ runningProcess' = 0
     \/ /\ att' = [att EXCEPT ![a] =
                     [Emit(Stage([@ EXCEPT !.natives = "ok"], "natives"), "preparing")
                        EXCEPT !.pc = "mkdir_game"]]
        /\ UNCHANGED runningProcess
  /\ UNCHANGED <<proc, signals, nLaunch, nKill>>

\* Arguments are rendered and the process is spawned; the process of attempt
\* a is named a.  spawn() reports a failure to start by a later 'error' event.
Spawn(a) ==
  /\ UNCHANGED <<varsPool, varsFile, varsResolve, varsPure>>
  /\ att[a].pc = "mkdir_game"
  /\ \/ \* rendering the arguments or spawn() throws
        /\ att' = [att EXCEPT ![a] = EndWithError(@, "exception")]
        /\ runningProcess' = 0
        /\ UNCHANGED proc
     \/ /\ att' = [att EXCEPT ![a] =
                     [Emit(Stage(@, "spawn"), "launching")
                        EXCEPT !.pc = "ended", !.ret = "success", !.pid = a]]
        /\ runningProcess' = a
        /\ \E st \in {"alive", "failed"} : proc' = [proc EXCEPT ![a] = st]
  /\ UNCHANGED <<signals, nLaunch, nKill>>

\* runningProcess.on('close', ...): the process exited.
ProcClose(p) ==
  /\ UNCHANGED <<varsPool, varsFile, varsResolve, varsPure>>
  /\ proc[p] = "alive"
  /\ proc' = [proc EXCEPT ![p] = "exited"]
  /\ att' = [att EXCEPT ![p] = Emit(@, "closed")]
  /\ runningProcess' = 0
  /\ UNCHANGED <<signals, nLaunch, nKill>>

\* runningProcess.on('error', ...): the process could not be started.
ProcError(p) ==
  /\ UNCHANGED <<varsPool, varsFile, varsResolve, varsPure>>
  /\ proc[p] = "failed"
  /\ proc' = [proc EXCEPT ![p] = "errored"]
  /\ att' = [att EXCEPT ![p] = [Emit(@, "error") EXCEPT !.errors = @ + 1]]
  /\ runningProcess' = 0
  /\ UNCHANGED <<signals, nLaunch, nKill>>

\* killRunningProcess() with the handle rp and the SIGTERM requests sig made
\* so far: the handle and the requests it leaves.  runningProcess.kill() is
\* called once, without a signal name; its result only selects a warning.
killRunningProcessKeepsHandle(rp, sig) ==
  IF rp # 0
  THEN [runningProcess |-> rp, signals |-> [sig EXCEPT ![rp] = @ + 1]]
  ELSE [runningProcess |-> rp, signals |-> sig]
killRunningProcess(rp, sig) ==
  IF rp # 0
  THEN [runningProcess |-> 0, signals |-> [sig EXCEPT ![rp] = @ + 1]]
  ELSE [runningProcess |-> rp, signals |-> sig]

\* ipcMain.handle('kill-game') -> killRunningProcess()
Kill ==
  /\ UNCHANGED <<varsPool, varsFile, varsResolve, varsPure>>
  /\ nKill < MaxKills
  /\ nKill' = nKill + 1
  /\ signals' = killRunningProcess(runningProcess, signals).signals
  /\ runningProcess' = killRunningProcess(runningProcess, signals).runningProcess
  /\ UNCHANGED <<proc, nLaunch, att>>

NextLaunch ==
  \/ LaunchRequest
  \/ \E a \in Attempts : CoreDone(a)
  \/ \E a \in Attempts : IndexRead(a)
  \/ \E a \in Attempts : AssetDone(a)
  \/ \E a \in Attempts : NativesDone(a)
  \/ \E a \in Attempts : Spawn(a)
  \/ \E p \in Attempts : ProcClose(p)
  \/ \E p \in Attempts : ProcError(p)
  \/ Kill

\* The supervisor serving few launch requests, with every kill request and
\* process event.
LaunchRequestSolo == LaunchRequestWithin(MaxSoloLaunches)
NextSupervisor ==
  \/ LaunchRequestSolo
  \/ \E a \in Attempts : CoreDone(a)
  \/ \E a \in Attempts : IndexRead(a)
  \/ \E a \in Attempts : AssetDone(a)
  \/ \E a \in Attempts : NativesDone(a)
  \/ \E a \in Attempts : Spawn(a)
  \/ \E p \in Attempts : ProcClose(p)
  \/ \E p \in Attempts : ProcError(p)
  \/ Kill

(* ============== getVersionDetails / mergeVersionDetails ================ *)
MaxResolveCalls == 2 \* top-level getVersionDetails calls
MaxDepth == 4        \* nested getVersionDetails calls followed

VersionIds == {"1.20.1", "1.20.1-modded", "1.20.1-OptiFine"}
NoParent == ""

\* versionId.toLowerCase().includes('optifine')
IsOptiFine(id) == id = "1.20.1-OptiFine"

\* The ids a version's JSON names as inheritsFrom in the explored universe.
NextId(id) ==
  CASE id = "1.20.1-OptiFine" -> "1.20.1-modded"
    [] id = "1.20.1-modded" -> "1.20.1"
    [] OTHER -> "1.20.1-OptiFine"
ParentChoices(id) == {NoParent, id, NextId(id)}


\* A library entry's name and, as its content, the version JSON that lists it.
\* variant tells apart two entries of one JSON that carry the same name.
OwnLib(id) == [name |-> <<"org.example", id, "1.0">>, of |-> id, variant |-> 1]
SharedLib(id) == [name |-> <<"org.example", "shared", "1.0">>, of |-> id, variant |-> 1]
SharedLibAgain(id) == [SharedLib(id) EXCEPT !.variant = 2]

\* A VersionDetails value; kind "null" is the null return, "pending" no value yet.
NullDetails ==
  [kind |-> "null", id |-> "", inheritsFrom |-> NoParent, mainClass |-> "",
   hasLibraries |-> FALSE, libraries |-> <<>>,
   hasArguments |-> FALSE, jvm |-> <<>>, game |-> <<>>]
PendingDetails == [NullDetails EXCEPT !.kind = "pending"]

\* The JSON of version id: a child defines no mainClass of its own.
RawDetails(id) ==
  [kind |-> "details", id |-> id, inheritsFrom |-> parentOf[id],
   mainClass |-> IF parentOf[id] = NoParent THEN id ELSE "",
   hasLibraries |-> TRUE,
   libraries |-> IF dupIn = id THEN <<SharedLib(id), OwnLib(id), SharedLibAgain(id)>>
                 ELSE <<SharedLib(id), OwnLib(id)>>,
   hasArguments |-> TRUE, jvm |-> <<id>>, game |-> <<id>>]

RECURSIVE MapSetAllByArtifact(_, _)
\* as MapSetAll, with the map keyed by group:artifact
MapSetAllByArtifact(m, libs) ==
  IF libs = <<>> THEN m
  ELSE LET lib == Head(libs)
           hit == {i \in 1..Len(m) : /\ m[i].name[1] = lib.name[1]
                                     /\ m[i].name[2] = lib.name[2]}
       IN MapSetAllByArtifact(IF hit = {} THEN Append(m, lib)
                              ELSE [i \in 1..Len(m) |-> IF i \in hit THEN lib ELSE m[i]],
                              Tail(libs))

RECURSIVE MapSetAll(_, _)
\* finalLibrariesMap.set(lib.name, lib) for each library, then Array.from(values())
MapSetAll(m, libs) ==
  IF libs = <<>> THEN m
  ELSE LET lib == Head(libs)
           hit == {i \in 1..Len(m) : m[i].name = lib.name}
       IN MapSetAll(IF hit = {} THEN Append(m, lib)
                    ELSE [i \in 1..Len(m) |-> IF i \in hit THEN lib ELSE m[i]],
                    Tail(libs))

mergeVersionDetailsChildOnly(parentDetails, childDetails) == childDetails
\* as mergeVersionDetails, without the assignment of merged.inheritsFrom
mergeVersionDetailsPlainClone(parentDetails, childDetails) ==
  [kind |-> "details",
   id |-> childDetails.id,
   inheritsFrom |-> parentDetails.inheritsFrom,
   mainClass |-> IF childDetails.mainClass # "" THEN childDetails.mainClass
                 ELSE parentDetails.mainClass,
   hasLibraries |-> parentDetails.hasLibraries \/ childDetails.hasLibraries,
   libraries |-> IF childDetails.hasLibraries
                 THEN MapSetAll(MapSetAll(<<>>, parentDetails.libraries),
                                childDetails.libraries)
                 ELSE parentDetails.libraries,
   hasArguments |-> TRUE,
   jvm |-> parentDetails.jvm \o childDetails.jvm,
   game |-> parentDetails.game \o childDetails.game]
\* as mergeVersionDetails, with the child's arguments put first
mergeVersionDetailsChildArgsFirst(parentDetails, childDetails) ==
  [kind |-> "details",
   id |-> childDetails.id,
   inheritsFrom |-> parentDetails.id,
   mainClass |-> IF childDetails.mainClass # "" THEN childDetails.mainClass
                 ELSE parentDetails.mainClass,
   hasLibraries |-> parentDetails.hasLibraries \/ childDetails.hasLibraries,
   libraries |-> IF childDetails.hasLibraries
                 THEN MapSetAll(MapSetAll(<<>>, parentDetails.libraries),
                                childDetails.libraries)
                 ELSE parentDetails.libraries,
   hasArguments |-> TRUE,
   jvm |-> childDetails.jvm \o parentDetails.jvm,
   game |-> childDetails.game \o parentDetails.game]
mergeVersionDetails(parentDetails, childDetails) ==
  [kind |-> "details",
   id |-> childDetails.id,
   inheritsFrom |-> parentDetails.id,
   mainClass |-> IF childDetails.mainClass # "" THEN childDetails.mainClass
                 ELSE parentDetails.mainClass,
   hasLibraries |-> parentDetails.hasLibraries \/ childDetails.hasLibraries,
   libraries |-> IF childDetails.hasLibraries
                 THEN MapSetAll(MapSetAll(<<>>, parentDetails.libraries),
                                childDetails.libraries)
                 ELSE parentDetails.libraries,
   hasArguments |-> TRUE,
   jvm |-> parentDetails.jvm \o childDetails.jvm,
   game |-> parentDetails.game \o childDetails.game]

ResolveIdle ==
  /\ parentOf = [v \in VersionIds |-> NoParent]
  /\ cacheState = [v \in VersionIds |-> "absent"]
  /\ inManifest = [v \in VersionIds |-> FALSE]
  /\ gvStack = <<>>
  /\ gvRet = PendingDetails
  /\ gvReq = ""
  /\ gvOut = PendingDetails
  /\ gvCalls = 0
  /\ dupIn = NoParent
  /\ gvPrevReq = ""
  /\ gvPrevOut = PendingDetails
  /\ cacheAtCall = cacheState

ResolveInit ==
  /\ parentOf \in {f \in [VersionIds -> VersionIds \cup {NoParent}] :
                     \A v \in VersionIds : f[v] \in ParentChoices(v)}
  /\ cacheState \in [VersionIds -> {"absent", "corrupt", "present"}]
  /\ inManifest \in [VersionIds -> BOOLEAN]
  /\ gvStack = <<>>
  /\ gvRet = PendingDetails
  /\ gvReq = ""
  /\ gvOut = PendingDetails
  /\ gvCalls = 0
  /\ dupIn \in VersionIds \cup {NoParent}
  /\ gvPrevReq = ""
  /\ gvPrevOut = PendingDetails
  /\ cacheAtCall = cacheState

Frame(id) == [id |-> id, pc |-> "start", local |-> PendingDetails]
Top == gvStack[Len(gvStack)]
SetTop(f) == [gvStack EXCEPT ![Len(gvStack)] = f]

\* `return v` of the innermost call: the value reaches its caller.
GvReturn(v) ==
  /\ gvStack' = SubSeq(gvStack, 1, Len(gvStack) - 1)
  /\ IF Len(gvStack) = 1
     THEN gvOut' = v /\ gvRet' = PendingDetails
     ELSE gvRet' = v /\ UNCHANGED gvOut

\* getVersionDetails(versionId, versionsPath, manifest) is called.
GvCall ==
  /\ UNCHANGED <<varsPool, varsFile, varsLaunch, varsPure>>
  /\ gvStack = <<>>
  /\ gvCalls < MaxResolveCalls
  /\ gvCalls' = gvCalls + 1
  /\ \E id \in VersionIds :
       /\ gvReq' = id
       /\ gvStack' = <<Frame(id)>>
  /\ gvOut' = PendingDetails
  /\ gvRet' = PendingDetails
  /\ gvPrevReq' = gvReq
  /\ gvPrevOut' = gvOut
  /\ cacheAtCall' = cacheState
  /\ UNCHANGED <<parentOf, cacheState, inManifest, dupIn>>

\* Step 1: read the local JSON of the version.
GvReadLocal ==
  /\ UNCHANGED <<varsPool, varsFile, varsLaunch, varsPure>>
  /\ gvStack # <<>>
  /\ Top.pc = "start"
  /\ LET id == Top.id
         localDetails == RawDetails(id)
     IN CASE cacheState[id] = "absent" ->
               /\ gvStack' = SetTop([Top EXCEPT !.pc = "web"])
               /\ UNCHANGED <<gvRet, gvOut>>
          [] cacheState[id] = "corrupt" ->
               IF IsOptiFine(id)
               THEN GvReturn(NullDetails)
               ELSE /\ gvStack' = SetTop([Top EXCEPT !.pc = "web"])
                    /\ UNCHANGED <<gvRet, gvOut>>
          [] OTHER ->
               IF localDetails.inheritsFrom # NoParent
               THEN /\ Len(gvStack) < MaxDepth
                    /\ gvStack' = Append(SetTop([Top EXCEPT !.pc = "await_parent",
                                                            !.local = localDetails]),
                                         Frame(localDetails.inheritsFrom))
                    /\ UNCHANGED <<gvRet, gvOut>>
               ELSE GvReturn(localDetails)
  /\ UNCHANGED <<parentOf, cacheState, inManifest, gvReq, gvCalls,
                 dupIn, gvPrevReq, gvPrevOut, cacheAtCall>>

\* The recursive call for the parent returned.
GvParentReturned ==
  /\ UNCHANGED <<varsPool, varsFile, varsLaunch, varsPure>>
  /\ gvStack # <<>>
  /\ Top.pc = "await_parent"
  /\ gvRet.kind # "pending"
  /\ IF gvRet.kind = "details"
     THEN GvReturn(mergeVersionDetails(gvRet, Top.local))
     ELSE GvReturn(NullDetails)
  /\ UNCHANGED <<parentOf, cacheState, inManifest, gvReq, gvCalls,
                 dupIn, gvPrevReq, gvPrevOut, cacheAtCall>>

\* Step 2: look the version up in the main manifest, fetch it and cache it.
GvWeb ==
  /\ UNCHANGED <<varsPool, varsFile, varsLaunch, varsPure>>
  /\ gvStack # <<>>
  /\ Top.pc = "web"
  /\ LET id == Top.id
     IN IF ~inManifest[id]
        THEN GvReturn(NullDetails) /\ UNCHANGED cacheState
        ELSE \/ \* fetchVersionDetailsFromWeb resolves null
                GvReturn(NullDetails) /\ UNCHANGED cacheState
             \/ \* fetched; writing the cache file succeeds or fails
                /\ GvReturn(RawDetails(id))
                /\ \/ cacheState' = [cacheState EXCEPT ![id] = "present"]
                   \/ UNCHANGED cacheState
  /\ UNCHANGED <<parentOf, inManifest, gvReq, gvCalls,
                 dupIn, gvPrevReq, gvPrevOut, cacheAtCall>>

NextResolve ==
  \/ GvCall
  \/ GvReadLocal
  \/ GvParentReturned
  \/ GvWeb

(* ========================= checkRule, rule lists ======================= *)
MaxRules == 2        \* rules of one rules array explored
MaxLibs == 2         \* entries of a libraries array explored
MaxArgs == 1         \* entries of an arguments.jvm array explored
MaxChain == 3        \* definitions of an inheritance chain merged in a row

SeqsUpTo(S, n) == UNION {[1..k -> S] : k \in 0..n}

OsNames == {"windows", "osx", "linux"}
FeatureKeys == {"is_demo_user"}

\* A rule of a version JSON. hasOs / hasFeatures: the os / features member is
\* present; name, arch, version "" when the member is absent from os;
\* features: the pairs <<flag, required value>> of the features member.
Rule(action, hasOs, name, arch, hasFeatures, features) ==
  [action |-> action, hasOs |-> hasOs, name |-> name, arch |-> arch, version |-> "",
   hasFeatures |-> hasFeatures, features |-> features]

RuleShapes(action) ==
  {Rule(action, FALSE, "", "", FALSE, {})}
    \cup {Rule(action, TRUE, n, "", FALSE, {}) : n \in OsNames}
    \cup {Rule(action, TRUE, "", "x86", FALSE, {}), Rule(action, TRUE, "windows", "x86", FALSE, {})}
    \cup {Rule(action, FALSE, "", "", TRUE, {<<"is_demo_user", b>>}) : b \in BOOLEAN}
    \cup {Rule(action, TRUE, "windows", "", TRUE, {<<"is_demo_user", TRUE>>})}
Rules == RuleShapes("allow") \cup RuleShapes("disallow")

\* A RuleContext handed to checkRule (given) or none (the host is detected).
Context(name, arch, features) ==
  [given |-> TRUE, name |-> name, arch |-> arch, features |-> features,
   platform |-> "linux", hostArch |-> "x64", version |-> "5.15"]
NoContext(platform, hostArch) ==
  [given |-> FALSE, name |-> "", arch |-> "", features |-> {},
   platform |-> platform, hostArch |-> hostArch, version |-> ""]
Contexts ==
  {Context(n, a, f) : n \in OsNames, a \in {"x86", "x64"}, f \in SUBSET FeatureKeys}
    \cup {NoContext(pf, a) : pf \in {"win32", "darwin", "linux"}, a \in {"ia32", "x64"}}

\* as checkRule, returning osMatch && featuresMatch whatever the action
checkRuleActionIgnored(rule, context) ==
  LET currentOsName == IF context.given THEN context.name
                       ELSE CASE context.platform = "win32" -> "windows"
                              [] context.platform = "darwin" -> "osx"
                              [] context.platform = "linux" -> "linux"
                              [] OTHER -> context.platform
      currentArch == IF context.given THEN context.arch ELSE context.hostArch
      nameDiffers(n, alias) ==
        rule.name = n /\ currentOsName # n /\ currentOsName # alias
      osMatch ==
        IF rule.hasOs
        THEN /\ ~(rule.name # "" /\ nameDiffers("windows", "win32"))
             /\ ~(rule.name # "" /\ nameDiffers("osx", "darwin"))
             /\ ~(rule.name # "" /\ nameDiffers("linux", "linux"))
             /\ ~(rule.arch # "" /\ rule.arch # currentArch)
        ELSE TRUE
      featuresMatch ==
        IF rule.hasFeatures
        THEN IF context.given
             THEN \A kv \in rule.features : ~(kv[2] /\ kv[1] \notin context.features)
             ELSE /\ <<"is_demo_user", TRUE>> \notin rule.features
                  /\ <<"has_custom_resolution", TRUE>> \notin rule.features
        ELSE TRUE
  IN osMatch /\ featuresMatch

\* checkRule(rule, context?)
checkRule(rule, context) ==
  LET currentOsName == IF context.given THEN context.name
                       ELSE CASE context.platform = "win32" -> "windows"
                              [] context.platform = "darwin" -> "osx"
                              [] context.platform = "linux" -> "linux"
                              [] OTHER -> context.platform
      currentArch == IF context.given THEN context.arch ELSE context.hostArch
      nameDiffers(n, alias) ==
        rule.name = n /\ currentOsName # n /\ currentOsName # alias
      osMatch ==
        IF rule.hasOs
        THEN /\ ~(rule.name # "" /\ nameDiffers("windows", "win32"))
             /\ ~(rule.name # "" /\ nameDiffers("osx", "darwin"))
             /\ ~(rule.name # "" /\ nameDiffers("linux", "linux"))
             /\ ~(rule.arch # "" /\ rule.arch # currentArch)
        ELSE TRUE
      featuresMatch ==
        IF rule.hasFeatures
        THEN IF context.given
             THEN \A kv \in rule.features : ~(kv[2] /\ kv[1] \notin context.features)
             ELSE /\ <<"is_demo_user", TRUE>> \notin rule.features
                  /\ <<"has_custom_resolution", TRUE>> \notin rule.features
        ELSE TRUE
      ruleAllows == rule.action = "allow"
  IN IF ruleAllows THEN osMatch /\ featuresMatch ELSE ~(osMatch /\ featuresMatch)

\* lib.rules ? lib.rules.every((rule) => checkRule(rule, context)) : true
rulesEvery(list, context) ==
  IF list.has THEN \A i \in DOMAIN list.rules : checkRule(list.rules[i], context)
  ELSE TRUE

RuleIdle ==
  /\ ruleList = [has |-> FALSE, rules |-> <<>>]
  /\ ruleCtx = Context("linux", "x64", {})
  /\ rulePc = "done"
  /\ ruleOut = TRUE
RuleInit ==
  /\ ruleList \in {[has |-> TRUE, rules |-> r] : r \in SeqsUpTo(Rules, MaxRules)}
                   \cup {[has |-> FALSE, rules |-> <<>>]}
  /\ ruleCtx \in Contexts
  /\ rulePc = "ready"
  /\ ruleOut = TRUE

\* Names an os.name member or a context can carry: those of OsName, names
\* other ecosystems use for the same platforms, and other platforms.
OsNameStrings == OsNames \cup {"macos", "darwin", "win32", "freebsd"}

\* One rule with an os.name member, and a context naming its OS.
OsNameInit ==
  /\ \E a \in {"allow", "disallow"}, n \in OsNameStrings :
       ruleList = [has |-> TRUE, rules |-> <<Rule(a, TRUE, n, "", FALSE, {})>>]
  /\ \E n \in OsNameStrings, arch \in {"x86", "x64"}, f \in SUBSET FeatureKeys :
       ruleCtx = Context(n, arch, f)
  /\ rulePc = "ready"
  /\ ruleOut = TRUE

\* Values of an os.version member ("" for none) and of a context's os.version.
OsVersions == {"10.0", "5.15"}

\* One rule with an os member that may carry a version constraint, and a
\* context with the OS release of its host.
OsVersionInit ==
  /\ \E a \in {"allow", "disallow"}, n \in OsNames \cup {""}, v \in OsVersions \cup {""} :
       ruleList = [has |-> TRUE,
                   rules |-> <<[Rule(a, TRUE, n, "", FALSE, {}) EXCEPT !.version = v]>>]
  /\ \E n \in OsNames, arch \in {"x86", "x64"}, f \in SUBSET FeatureKeys, v \in OsVersions :
       ruleCtx = [Context(n, arch, f) EXCEPT !.version = v]
  /\ rulePc = "ready"
  /\ ruleOut = TRUE

\* A rules array is evaluated at a call site.
Evaluate ==
  /\ UNCHANGED <<varsPool, varsFile, varsLaunch, varsResolve, varsMerge, varsCp, varsMore>>
  /\ rulePc = "ready"
  /\ ruleOut' = rulesEvery(ruleList, ruleCtx)
  /\ rulePc' = "done"
  /\ UNCHANGED <<ruleList, ruleCtx>>

NextRule ==
  \/ Evaluate

(* ============================ buildClasspath =========================== *)
MaxCpCalls == 2      \* buildClasspath calls on one definition and disk state

\* A path below librariesPath: <group dir>/<artifact>/<version>/<file>, the file
\* being <artifact>-<version>[-<classifier>].jar; NoPath when there is none.
LibPath(group, artifact, version, classifier) == <<group, artifact, version, classifier>>
NoPath == <<>>
\* path.join(paths.versionsPath, baseVersionId, `${baseVersionId}.jar`)
ClientJarPath(baseVersionId) == <<"versions", baseVersionId, baseVersionId, "">>

\* s.startsWith('natives-')
StartsWithNatives(s) == s \in {"natives-linux", "natives-osx", "natives-windows"}

NoRules == [has |-> FALSE, rules |-> <<>>]
RuleList(rs) == [has |-> TRUE, rules |-> rs]

\* A library entry as buildClasspath reads it. valid: the entry is an object
\* with a string name; name: lib.name.split(':'); artifactPath:
\* lib.downloads?.artifact?.path; natives: lib.natives is present.
CpLib(name, artifactPath, natives, rules) ==
  [valid |-> TRUE, name |-> name, artifactPath |-> artifactPath,
   natives |-> natives, rules |-> rules]
InvalidLib == [CpLib(<<>>, NoPath, FALSE, NoRules) EXCEPT !.valid = FALSE]

Lwjgl(v) == <<"org.lwjgl", "lwjgl", v>>
CpLibs ==
  { CpLib(Lwjgl("3.2.2"), LibPath("org.lwjgl", "lwjgl", "3.2.2", ""), FALSE, NoRules),
    CpLib(Lwjgl("3.2.2"), LibPath("org.lwjgl", "lwjgl", "3.2.2", ""), TRUE, NoRules),
    CpLib(Lwjgl("3.2.1"), LibPath("org.lwjgl", "lwjgl", "3.2.1", ""), FALSE,
          RuleList(<<Rule("allow", TRUE, "osx", "", FALSE, {})>>)),
    CpLib(Lwjgl("3.2.2"), LibPath("org.lwjgl", "lwjgl", "3.2.2", ""), FALSE,
          RuleList(<<Rule("allow", FALSE, "", "", FALSE, {}),
                     Rule("disallow", TRUE, "osx", "", FALSE, {})>>)),
    CpLib(<<"org.lwjgl", "lwjgl", "3.3.3", "natives-linux">>,
          LibPath("org.lwjgl", "lwjgl", "3.3.3", "natives-linux"), FALSE, NoRules),
    CpLib(<<"org.lwjgl", "lwjgl", "3.3.3", "natives-linux">>, NoPath, FALSE, NoRules),
    CpLib(<<"org.lwjgl.lwjgl", "lwjgl-platform", "2.9.4">>,
          LibPath("org.lwjgl.lwjgl", "lwjgl-platform", "2.9.4", "natives-linux"),
          FALSE, NoRules),
    CpLib(<<"com.example", "lib", "1.0">>, NoPath, FALSE, NoRules),
    CpLib(<<"com.example", "lib", "2.0">>, LibPath("com.example", "lib", "2.0", ""),
          FALSE, NoRules),
    CpLib(<<"com.example", "lib", "1.0", "sources">>, NoPath, FALSE, NoRules),
    CpLib(<<"com.example", "virtual">>, NoPath, FALSE, NoRules),
    CpLib(<<"virtual">>, NoPath, FALSE, NoRules),
    InvalidLib }

\* libFullPath of a library with a name of at least two parts
LibFullPath(lib) ==
  IF lib.artifactPath # NoPath THEN lib.artifactPath
  ELSE IF Len(lib.name) >= 3
       THEN LibPath(lib.name[1], lib.name[2], lib.name[3],
                    IF Len(lib.name) > 3 /\ ~StartsWithNatives(lib.name[4])
                    THEN lib.name[4] ELSE "")
       ELSE NoPath

\* isLikelyNativeOnlyJar, without the test of lib.natives
isLikelyNativeOnlyJarNoNativesObject(lib) ==
  LET isNativeJarByName == \E i \in 2..Len(lib.name) : StartsWithNatives(lib.name[i])
      isNativeJarByFileName == StartsWithNatives(LibFullPath(lib)[4])
  IN isNativeJarByName \/ isNativeJarByFileName
\* isLikelyNativeOnlyJar of a library whose libFullPath is set
isLikelyNativeOnlyJar(lib) ==
  LET isNativeJarByName == \E i \in 2..Len(lib.name) : StartsWithNatives(lib.name[i])
      isNativeJarByFileName == StartsWithNatives(LibFullPath(lib)[4])
      hasNativesObject == lib.natives
  IN isNativeJarByName \/ isNativeJarByFileName \/ hasNativesObject

\* as libraryPathMapSet, keeping the path already stored for the key
libraryPathMapSetFirstWins(map, key, path) ==
  IF \E i \in DOMAIN map : map[i].key = key THEN map
  ELSE Append(map, [key |-> key, path |-> path])
\* libraryPathMap.set(libraryKey, libFullPath): a Map keeps the position of a
\* key it already holds and replaces its value.
libraryPathMapSet(map, key, path) ==
  IF \E i \in DOMAIN map : map[i].key = key
  THEN [i \in DOMAIN map |-> IF map[i].key = key THEN [key |-> key, path |-> path]
                             ELSE map[i]]
  ELSE Append(map, [key |-> key, path |-> path])

\* The body of versionDetails.libraries.forEach for one library.
ForEachLibrary(map, lib, files) ==
  IF ~lib.valid \/ Len(lib.name) < 2 THEN map
  ELSE LET libraryKey == <<lib.name[1], lib.name[2]>>
           libFullPath == LibFullPath(lib)
       IN IF libFullPath # NoPath /\ ~isLikelyNativeOnlyJar(lib) /\ libFullPath \in files
          THEN libraryPathMapSet(map, libraryKey, libFullPath)
          ELSE map

RECURSIVE LibraryPathMap(_, _)
LibraryPathMap(libs, files) ==
  IF libs = <<>> THEN <<>>
  ELSE ForEachLibrary(LibraryPathMap(SubSeq(libs, 1, Len(libs) - 1), files),
                      libs[Len(libs)], files)

\* buildClasspath(versionDetails, paths): the entries joined by the separator
buildClasspath(versionDetails, files) ==
  LET map == LibraryPathMap(versionDetails.libraries, files)
      finalClassPathEntries == [i \in DOMAIN map |-> map[i].path]
      baseVersionId == IF versionDetails.inheritsFrom # NoParent
                       THEN versionDetails.inheritsFrom ELSE versionDetails.id
      clientJarPath == ClientJarPath(baseVersionId)
  IN IF clientJarPath \notin Range(finalClassPathEntries) /\ clientJarPath \in files
     THEN Append(finalClassPathEntries, clientJarPath)
     ELSE finalClassPathEntries

CpDefinition(inheritsFrom, libs) ==
  [id |-> IF inheritsFrom = NoParent THEN "1.20.1" ELSE "1.20.1-modded",
   inheritsFrom |-> inheritsFrom, libraries |-> libs]
\* The paths buildClasspath may look for on disk.
CpPaths(def) ==
  ({LibFullPath(def.libraries[i]) :
      i \in {j \in DOMAIN def.libraries : Len(def.libraries[j].name) >= 2}} \ {NoPath})
    \cup {ClientJarPath(IF def.inheritsFrom # NoParent THEN def.inheritsFrom ELSE def.id)}

CpIdle ==
  /\ cpDef = CpDefinition(NoParent, <<>>)
  /\ cpFiles = {}
  /\ cpHost = "linux"
  /\ cpCalls = MaxCpCalls
  /\ cpMap = <<>>
  /\ cpOut = <<>>
  /\ cpFirst = <<>>
CpInit ==
  /\ cpDef \in {CpDefinition(p, l) : p \in {NoParent, "1.20.1"},
                                     l \in SeqsUpTo(CpLibs, MaxLibs)}
  /\ cpFiles \in SUBSET CpPaths(cpDef)
  /\ cpHost \in {"linux", "osx"}
  /\ cpCalls = 0
  /\ cpMap = <<>>
  /\ cpOut = <<>>
  /\ cpFirst = <<>>

\* launchVersion (or anyone) calls buildClasspath(versionDetails, paths).
BuildClasspath ==
  /\ UNCHANGED <<varsPool, varsFile, varsLaunch, varsResolve, varsMerge, varsRule, varsMore>>
  /\ cpCalls < MaxCpCalls
  /\ cpCalls' = cpCalls + 1
  /\ cpMap' = LibraryPathMap(cpDef.libraries, cpFiles)
  /\ cpOut' = buildClasspath(cpDef, cpFiles)
  /\ cpFirst' = IF cpCalls = 0 THEN buildClasspath(cpDef, cpFiles) ELSE cpFirst
  /\ UNCHANGED <<cpDef, cpFiles, cpHost>>

NextClasspath ==
  \/ BuildClasspath

(* ============ mergeVersionDetails on explicit definitions ============== *)
LibA1 == <<"org.example", "A", "1">>
LibB1 == <<"org.example", "B", "1">>
LibB2 == <<"org.example", "B", "2">>
LibC1 == <<"org.example", "C", "1">>

\* Library entries a parent JSON and a child JSON may list; the parent may list
\* B@1 twice (variant 1 and 2), as vanilla JSONs list a library once plain and
\* once with its natives mapping.
ParentLibs ==
  {[name |-> n, of |-> "parent", variant |-> 1] : n \in {LibA1, LibB1}}
    \cup {[name |-> LibB1, of |-> "parent", variant |-> 2]}
ChildLibs == {[name |-> n, of |-> "child", variant |-> 1] : n \in {LibB1, LibB2, LibC1}}

ChainId(i) ==
  IF i = 1 THEN "1.20.1" ELSE IF i = 2 THEN "1.20.1-modded" ELSE "1.20.1-OptiFine"

\* A parsed version JSON. An absent libraries or arguments section is the flag
\* FALSE with empty lists; an absent arguments.jvm or arguments.game inside a
\* present section is the empty list (spreading either adds nothing).
Definition(id, mainClass, hasLibs, libs, hasArgs, jvm, game) ==
  [kind |-> "details", id |-> id, inheritsFrom |-> NoParent, mainClass |-> mainClass,
   hasLibraries |-> hasLibs, libraries |-> libs,
   hasArguments |-> hasArgs, jvm |-> jvm, game |-> game]

\* Inputs of the library cases: one parent, one child.
LibParents ==
  {Definition(ChainId(1), "net.minecraft.client.main.Main", TRUE, l, TRUE, <<"-X">>, <<>>) :
     l \in SeqsUpTo(ParentLibs, MaxLibs)}
LibChildren ==
  {Definition(ChainId(2), m, TRUE, l, TRUE, <<"-Dmodded=true">>, <<>>) :
     m \in {"", "org.example.Loader"}, l \in SeqsUpTo(ChildLibs, MaxLibs)}
    \cup {Definition(ChainId(2), m, FALSE, <<>>, TRUE, <<"-Dmodded=true">>, <<>>) :
            m \in {"", "org.example.Loader"}}

\* Inputs of the argument cases: a chain of definitions, root-most first.
ArgSections ==
  {[has |-> TRUE, jvm |-> j, game |-> g] :
     j \in SeqsUpTo({"-X", "-Y"}, MaxArgs), g \in {<<>>, <<"--demo">>}}
    \cup {[has |-> FALSE, jvm |-> <<>>, game |-> <<>>]}
ArgChain(sections) ==
  [i \in DOMAIN sections |->
     Definition(ChainId(i), "", TRUE, <<OwnLib(ChainId(i))>>,
                sections[i].has, sections[i].jvm, sections[i].game)]

MergeIdle == mInputs = <<>> /\ mDone = 0 /\ mMerged = PendingDetails
MergeLibsInit ==
  /\ mInputs \in {<<p, c>> : p \in LibParents, c \in LibChildren}
  /\ mDone = 0
  /\ mMerged = PendingDetails
MergeArgsInit ==
  /\ \E n \in 2..MaxChain :
       \E sections \in [1..n -> ArgSections] : mInputs = ArgChain(sections)
  /\ mDone = 0
  /\ mMerged = PendingDetails

\* mergeVersionDetails(parentDetails, childDetails) is called on the next
\* definition of the chain; its parent is the result for the chain so far, as
\* in getVersionDetails, where the parent handed over is itself resolved.
MergeCall ==
  /\ UNCHANGED <<varsPool, varsFile, varsLaunch, varsResolve, varsRule, varsCp, varsMore>>
  /\ mDone < Len(mInputs)
  /\ IF mDone = 0
     THEN /\ mMerged' = mergeVersionDetails(mInputs[1], mInputs[2])
          /\ mDone' = 2
     ELSE /\ mMerged' = mergeVersionDetails(mMerged, mInputs[mDone + 1])
          /\ mDone' = mDone + 1
  /\ UNCHANGED mInputs

NextMerge ==
  \/ MergeCall

(* ========================= replacePlaceholders ========================= *)
MaxTemplateLen == 2  \* pieces of a template string
MaxValueLen == 2     \* pieces of a variable's value

\* A string is a sequence of pieces: an ordinary character run ("x", "y"), a
\* placeholder "${name}", or one of the two-character sequences "$&" and
\* "$$", which String.prototype.replace gives a meaning in a replacement
\* string; "$" is a dollar sign followed by an ordinary character.
Placeholder(key) == "${" \o key \o "}"
VariableKeys == <<"auth_player_name", "version_name">>
TemplatePieces ==
  {"x", Placeholder("auth_player_name"), Placeholder("version_name"), Placeholder("path")}
ValuePieces == {"x", "$&", "$$", Placeholder("version_name"), Placeholder("path")}

\* The text a replacement string stands for at a match: "$&" is the matched
\* substring, "$$" a dollar sign, any other piece itself.
RECURSIVE ReplacementText(_, _)
ReplacementText(replacement, matched) ==
  IF replacement = <<>> THEN <<>>
  ELSE (CASE Head(replacement) = "$&" -> <<matched>>
          [] Head(replacement) = "$$" -> <<"$">>
          [] OTHER -> <<Head(replacement)>>)
       \o ReplacementText(Tail(replacement), matched)

\* result.replace(new RegExp(`\\$\\{${key}\\}`, 'g'), value): one pass over
\* the string, every match replaced, the inserted text not matched again.
RECURSIVE StringReplaceAll(_, _, _)
StringReplaceAll(str, key, value) ==
  IF str = <<>> THEN <<>>
  ELSE (IF Head(str) = Placeholder(key)
        THEN ReplacementText(value, Placeholder(key))
        ELSE <<Head(str)>>)
       \o StringReplaceAll(Tail(str), key, value)

\* replacePlaceholders(template, variables): `for (const key in variables)`
\* applies one replace per key, in property order, to the running result.
RECURSIVE replacePlaceholders(_, _)
replacePlaceholders(template, variables) ==
  IF variables = <<>> THEN template
  ELSE replacePlaceholders(
         StringReplaceAll(template, Head(variables)[1], Head(variables)[2]),
         Tail(variables))

PhIdle ==
  /\ phTemplate = <<>>
  /\ phVars = <<>>
  /\ phPc = "done"
  /\ phOut = <<>>
PhInit ==
  /\ phTemplate \in SeqsUpTo(TemplatePieces, MaxTemplateLen)
  /\ \E name \in SeqsUpTo(ValuePieces, MaxValueLen), version \in {<<>>, <<"y">>} :
       phVars = <<<<VariableKeys[1], name>>, <<VariableKeys[2], version>>>>
  /\ phPc = "ready"
  /\ phOut = <<>>

\* replacePlaceholders is called on the template.
ReplacePlaceholders ==
  /\ UNCHANGED <<varsBase, varsArgs, varsProgress, varsEnum, varsAssets, varsPrep>>
  /\ phPc = "ready"
  /\ phOut' = replacePlaceholders(phTemplate, phVars)
  /\ phPc' = "done"
  /\ UNCHANGED <<phTemplate, phVars>>

NextPlaceholders ==
  \/ ReplacePlaceholders

(* =========================== processArguments ========================== *)
MaxEntries == 2      \* entries of an arguments array handed to processArguments
MaxArgRules == 1     \* rules of one conditional entry

\* An entry of arguments.jvm / arguments.game: a string, or an object
\* {rules, value} with value one string or an array of strings.
StringArg(text) ==
  [isString |-> TRUE, rules |-> [has |-> FALSE, rules |-> <<>>],
   isArray |-> FALSE, value |-> <<text>>]
RuleBasedArgument(rules, isArray, value) ==
  [isString |-> FALSE, rules |-> rules, isArray |-> isArray, value |-> value]

\* Rules as version JSONs carry them on arguments: GameRule {action, features}
\* with the flags of Features, JvmRule {action, os}.
ArgFeatureKeys == {"is_demo_user", "has_custom_resolution", "has_quick_plays_support"}
ArgRules ==
  {Rule("allow", FALSE, "", "", TRUE, {<<k, TRUE>>}) : k \in ArgFeatureKeys}
    \cup {Rule(a, TRUE, n, "", FALSE, {}) : a \in {"allow", "disallow"}, n \in {"windows", "osx"}}
    \cup {Rule("allow", TRUE, "", "x86", FALSE, {})}
ArgStrings == {<<"x">>, <<"--demo">>, <<Placeholder("auth_player_name")>>}
ArgValues ==
  {[isArray |-> FALSE, value |-> <<str>>] : str \in ArgStrings}
    \cup {[isArray |-> TRUE, value |-> <<<<"--quickPlayPath">>, <<Placeholder("path")>>>>],
          [isArray |-> TRUE, value |-> <<>>]}
ArgEntries(ruleLists) ==
  {StringArg(str) : str \in ArgStrings}
    \cup {RuleBasedArgument(r, v.isArray, v.value) : r \in ruleLists, v \in ArgValues}

Hosts == {[platform |-> pf, hostArch |-> a] : pf \in {"win32", "darwin", "linux"},
                                             a \in {"ia32", "x64"}}

RECURSIVE replaceEach(_, _)
\* values.forEach((val) => processed.push(replacePlaceholders(val, variables)))
replaceEach(values, variables) ==
  IF values = <<>> THEN <<>>
  ELSE <<replacePlaceholders(Head(values), variables)>>
         \o replaceEach(Tail(values), variables)

RECURSIVE processArguments(_, _, _)
\* processArguments(args, variables) on the host: the rules of an entry are
\* checked by checkRule(rule), no context given.
processArguments(args, variables, host) ==
  IF args = <<>> THEN <<>>
  ELSE LET arg == Head(args)
           allow == rulesEvery(arg.rules, NoContext(host.platform, host.hostArch))
       IN (IF arg.isString THEN <<replacePlaceholders(arg.value[1], variables)>>
           ELSE IF allow THEN replaceEach(arg.value, variables)
           ELSE <<>>)
          \o processArguments(Tail(args), variables, host)

ArgsIdle ==
  /\ argList = <<>>
  /\ argVars = <<>>
  /\ argHost = [platform |-> "linux", hostArch |-> "x64"]
  /\ argPc = "done"
  /\ argOut = <<>>
ArgsInit ==
  /\ LET ruleLists == {[has |-> TRUE, rules |-> r] : r \in SeqsUpTo(ArgRules, MaxArgRules)}
                        \cup {[has |-> FALSE, rules |-> <<>>]}
     IN argList \in SeqsUpTo(ArgEntries(ruleLists), MaxEntries)
  /\ argVars = <<<<VariableKeys[1], <<"Steve">>>>, <<VariableKeys[2], <<"1.20.1">>>>>>
  /\ argHost \in Hosts
  /\ argPc = "ready"
  /\ argOut = <<>>

\* processArguments is called on the entries.
ProcessArguments ==
  /\ UNCHANGED <<varsBase, varsPh, varsProgress, varsEnum, varsAssets, varsPrep>>
  /\ argPc = "ready"
  /\ argOut' = processArguments(argList, argVars, argHost)
  /\ argPc' = "done"
  /\ UNCHANGED <<argList, argVars, argHost>>

NextArguments ==
  \/ ProcessArguments

(* ================== downloadFile and its progress sink ================== *)
\* One run of downloadFile: [attempts, requests, file, status, success,
\* validationPassed]; status "running" | "returned" | "rejected".
NewRun(file) ==
  [attempts |-> 0, requests |-> 0, file |-> file, status |-> "running",
   success |-> FALSE, validationPassed |-> FALSE]

\* What the network and the filesystem do to one attempt: kind is how the
\* attempt's I/O ends, body the file a finished stream leaves, unlinkOk
\* whether an unlink of the destination succeeds.
AttemptEnvs ==
  [kind : {"mkdirError", "non200", "reqError", "streamError", "finish"},
   body : {"good", "bad"}, unlinkOk : BOOLEAN]

\* mainWindow?.webContents.send(...) throws when the window is destroyed;
\* with mainWindow null, or a live window, it returns.
sendProgressThrows(sink) == sink = "destroyed"

\* catch (error) of the attempt loop: the last attempt reports ERROR through
\* sendProgress and returns the result, any other one backs off and loops.
AttemptCatch(run, sink) ==
  IF run.attempts >= MAX_ATTEMPTS
  THEN [run EXCEPT !.success = FALSE,
                   !.status = IF sendProgressThrows(sink) THEN "rejected" ELSE "returned"]
  ELSE [run EXCEPT !.success = FALSE]

\* One iteration of `while (attempts < MAX_ATTEMPTS)` of downloadFile.
downloadAttempt(run, sha, env, sink) ==
  LET r1 == [run EXCEPT !.attempts = @ + 1, !.success = FALSE, !.validationPassed = FALSE]
      precheck == sha /\ run.file # "absent"
      unlinked(r) == [r EXCEPT !.file = IF env.unlinkOk THEN "absent" ELSE @]
      done(r) == [r EXCEPT !.status = "returned"]
  IN IF env.kind = "mkdirError" THEN AttemptCatch(r1, sink)
     ELSE IF precheck /\ sendProgressThrows(sink) THEN AttemptCatch(r1, sink)
     ELSE IF precheck /\ Sha1Matches(run.file)
     THEN done([r1 EXCEPT !.success = TRUE, !.validationPassed = TRUE])
     ELSE IF sendProgressThrows(sink) THEN AttemptCatch(r1, sink)
     ELSE LET r2 == [r1 EXCEPT !.file = "partial", !.requests = @ + 1]
              r3 == [r2 EXCEPT !.file = env.body, !.success = TRUE]
          IN CASE env.kind = "non200" -> AttemptCatch(r2, sink)
               [] env.kind = "reqError" -> AttemptCatch(unlinked(r2), sink)
               [] env.kind = "streamError" -> AttemptCatch(r2, sink)
               [] OTHER ->
                    IF ~sha \/ Sha1Matches(env.body)
                    THEN done([r3 EXCEPT !.validationPassed = TRUE])
                    ELSE IF r3.attempts < MAX_ATTEMPTS
                    THEN AttemptCatch(unlinked(r3), sink)
                    ELSE done(r3)

ProgressIdle ==
  /\ pgSha = FALSE
  /\ pgSink = "ok"
  /\ pgWith = [NewRun("absent") EXCEPT !.status = "returned"]
  /\ pgWithout = [NewRun("absent") EXCEPT !.status = "returned"]
ProgressInit ==
  /\ pgSha \in BOOLEAN
  /\ pgSink = "ok"
  /\ \E file \in FileStates : pgWith = NewRun(file) /\ pgWithout = NewRun(file)

\* The two runs make their next attempt against the same network and
\* filesystem behaviour; a run that has ended stays as it is.
DownloadAttempt ==
  /\ UNCHANGED <<varsBase, varsPh, varsArgs, varsEnum, varsAssets, varsPrep>>
  /\ pgWith.status = "running" \/ pgWithout.status = "running"
  /\ \E env \in AttemptEnvs :
       /\ env.kind = "mkdirError" => pgWith.file = "absent" /\ pgWithout.file = "absent"
       /\ pgWith' = IF pgWith.status = "running"
                    THEN downloadAttempt(pgWith, pgSha, env, pgSink) ELSE pgWith
       /\ pgWithout' = IF pgWithout.status = "running"
                       THEN downloadAttempt(pgWithout, pgSha, env, "none") ELSE pgWithout
  /\ UNCHANGED <<pgSha, pgSink>>

\* The launcher window is closed while the download is under way.
WindowDestroyed ==
  /\ UNCHANGED <<varsBase, varsPh, varsArgs, varsEnum, varsAssets, varsPrep>>
  /\ pgSink = "ok"
  /\ pgWith.status = "running"
  /\ pgSink' = "destroyed"
  /\ UNCHANGED <<pgSha, pgWith, pgWithout>>

NextProgress ==
  \/ DownloadAttempt
  \/ WindowDestroyed

(* ====================== getRequiredInitialDownloads ==================== *)
\* versionDetails as getRequiredInitialDownloads reads it.
EnDefinition(id, hasClient, libs, hasAssetIndex, hasLogFile) ==
  [id |-> id, hasClient |-> hasClient, libraries |-> libs,
   hasAssetIndex |-> hasAssetIndex, hasLogFile |-> hasLogFile]

\* path.join(paths.assetsPath, 'indexes', `${assetIndex.id}.json`) and
\* path.join(paths.assetsPath, 'logging', file.id)
AssetIndexPath == <<"assets", "indexes", "index", "">>
LogConfigPath == <<"assets", "logging", "client", "">>

\* lib.rules ? lib.rules.every(rule => !(rule.os && rule.action === 'disallow')) : true
allowDownloadBasedOnSimpleRules(lib) ==
  IF lib.rules.has
  THEN \A i \in DOMAIN lib.rules.rules :
         ~(lib.rules.rules[i].hasOs /\ lib.rules.rules[i].action = "disallow")
  ELSE TRUE

RECURSIVE LibraryTasks(_)
\* versionDetails.libraries.forEach of getRequiredInitialDownloads
LibraryTasks(libs) ==
  IF libs = <<>> THEN <<>>
  ELSE LET lib == Head(libs)
       IN (IF lib.valid /\ allowDownloadBasedOnSimpleRules(lib) /\ lib.artifactPath # NoPath
           THEN <<[destination |-> lib.artifactPath, label |-> "library"]>>
           ELSE <<>>)
          \o LibraryTasks(Tail(libs))

\* getRequiredInitialDownloads(versionDetails, paths)
getRequiredInitialDownloads(versionDetails) ==
  (IF versionDetails.hasClient
   THEN <<[destination |-> ClientJarPath(versionDetails.id), label |-> "client"]>>
   ELSE <<>>)
  \o LibraryTasks(versionDetails.libraries)
  \o (IF versionDetails.hasAssetIndex
      THEN <<[destination |-> AssetIndexPath, label |-> "assetIndex"]>> ELSE <<>>)
  \o (IF versionDetails.hasLogFile
      THEN <<[destination |-> LogConfigPath, label |-> "logConfig"]>> ELSE <<>>)

\* ruleContextForExtraction of extractNatives on a host
ExtractionContext(host) == Context(host.name, host.arch, {})

EnumIdle ==
  /\ enDef = EnDefinition("1.20.1", FALSE, <<>>, FALSE, FALSE)
  /\ enCtx = [name |-> "linux", arch |-> "x64"]
  /\ enPc = "done"
  /\ enTasks = <<>>
EnumInit ==
  /\ \E libs \in SeqsUpTo(CpLibs, MaxLibs), hasClient \in BOOLEAN, extras \in BOOLEAN :
       enDef = EnDefinition("1.20.1", hasClient, libs, extras, extras)
  /\ enCtx \in [name : OsNames, arch : {"x64", "arm64"}]
  /\ enPc = "ready"
  /\ enTasks = <<>>

\* getRequiredInitialDownloads is called on the definition.
GetRequiredInitialDownloads ==
  /\ UNCHANGED <<varsBase, varsPh, varsArgs, varsProgress, varsAssets, varsPrep>>
  /\ enPc = "ready"
  /\ enTasks' = getRequiredInitialDownloads(enDef)
  /\ enPc' = "done"
  /\ UNCHANGED <<enDef, enCtx>>

NextEnum ==
  \/ GetRequiredInitialDownloads

(* ========== getAssetDownloadTasks and the asset download run =========== *)
AssetHashes == {"aa11", "bb22"}
\* path.join(paths.assetsPath, 'objects', firstTwo, hash)
AssetPath(hash) == <<"assets", "objects", hash, "">>

RECURSIVE getAssetDownloadTasks(_, _)
\* getAssetDownloadTasks(assetIndex, paths): one task per name of the index,
\* the names numbered from `first` on.
getAssetDownloadTasks(objects, first) ==
  IF objects = <<>> THEN <<>>
  ELSE <<[destination |-> AssetPath(Head(objects)), label |-> first]>>
         \o getAssetDownloadTasks(Tail(objects), first + 1)

AssetsIdle ==
  /\ asIndex = <<>>
  /\ asPc = "done"
  /\ asTasks = <<>>
AssetsInit ==
  /\ asIndex \in SeqsUpTo(AssetHashes, MaxTasks)
  /\ asPc = "ready"
  /\ asTasks = <<>>

\* launchVersion enumerates the asset tasks and hands them, when there is
\* one, to downloadMultipleFiles with settings.parallelDownloads.
GetAssetDownloadTasks ==
  /\ UNCHANGED <<varsFile, varsLaunch, varsResolve, varsMerge, varsRule, varsCp,
                 varsPh, varsArgs, varsProgress, varsEnum, varsPrep>>
  /\ asPc = "ready"
  /\ poolPc = "idle"
  /\ asTasks' = getAssetDownloadTasks(asIndex, 1)
  /\ asPc' = "done"
  /\ nTasks' = Len(asIndex)
  /\ parallelLimit' \in 1..MaxLimit
  /\ taskSha' = [i \in 1..Len(asIndex) |-> TRUE]
  /\ queue' = [i \in 1..Len(asIndex) |-> i]
  /\ dl' = [i \in 1..Len(asIndex) |-> "queued"]
  /\ dlResult' = [i \in 1..Len(asIndex) |-> NoResult]
  /\ reactions' = [i \in 1..Len(asIndex) |-> <<>>]
  /\ UNCHANGED <<asIndex, poolPc, activeDownloads, mq, workers, running, counts, poolRet>>

\* if (assetDownloads.length > 0) await downloadMultipleFiles(assetDownloads, ...)
DownloadAssets ==
  /\ asPc = "done"
  /\ nTasks > 0
  /\ PoolCall

NextAssets ==
  \/ GetAssetDownloadTasks
  \/ DownloadAssets
  \/ ExecStart
  \/ ExecAwaitAll
  \/ \E t \in Tasks : Settle(t)
  \/ RunThen
  \/ RunRaceReaction
  \/ RunAllReaction
  \/ RunResume
  \/ PoolReturn

(* ============================ extractNatives =========================== *)
\* A library entry as extractNatives reads it: a CpLib with nativesMap
\* (lib.natives: for each OS it names, the classifier text and whether it ends
\* in ${arch}), hasClassifiers (lib.downloads?.classifiers is present) and
\* classifiers (the keys of lib.downloads.classifiers).
NvLib(name, artifactPath, nativesMap, hasClassifiers, classifiers, rules) ==
  [valid |-> TRUE, name |-> name, artifactPath |-> artifactPath,
   natives |-> DOMAIN nativesMap # {}, rules |-> rules,
   nativesMap |-> nativesMap, hasClassifiers |-> hasClassifiers,
   classifiers |-> classifiers]
NoNatives == <<>>
NvInvalidLib ==
  [NvLib(<<>>, NoPath, NoNatives, FALSE, {}, NoRules) EXCEPT !.valid = FALSE]

\* The natives member of the older LWJGL entries.
PlatformNatives ==
  [os \in OsNames |->
     CASE os = "linux" -> [text |-> "natives-linux", arch |-> FALSE]
       [] os = "osx" -> [text |-> "natives-osx", arch |-> FALSE]
       [] os = "windows" -> [text |-> "natives-windows-", arch |-> TRUE]]
PlatformClassifiers == {"natives-linux", "natives-osx", "natives-windows-64"}

NvLibs ==
  { NvLib(<<"org.lwjgl", "lwjgl", "3.3.3", "natives-linux">>,
          LibPath("org.lwjgl", "lwjgl", "3.3.3", "natives-linux"),
          NoNatives, FALSE, {}, NoRules),
    NvLib(<<"org.lwjgl", "lwjgl", "3.3.3", "natives-macos-arm64">>,
          LibPath("org.lwjgl", "lwjgl", "3.3.3", "natives-macos-arm64"),
          NoNatives, FALSE, {}, RuleList(<<Rule("allow", TRUE, "osx", "", FALSE, {})>>)),
    NvLib(<<"org.lwjgl", "lwjgl", "3.3.3", "natives-linux">>, NoPath,
          NoNatives, FALSE, {}, NoRules),
    NvLib(<<"org.lwjgl", "lwjgl-glfw", "3.2.2", "natives-linux">>,
          LibPath("org.lwjgl", "lwjgl-glfw", "3.2.2", "natives-linux"),
          PlatformNatives, TRUE, PlatformClassifiers, NoRules),
    NvLib(<<"org.lwjgl.lwjgl", "lwjgl-platform", "2.9.4">>,
          LibPath("org.lwjgl.lwjgl", "lwjgl-platform", "2.9.4", ""),
          PlatformNatives, TRUE, PlatformClassifiers, NoRules),
    NvLib(<<"org.lwjgl.lwjgl", "lwjgl-platform", "2.9.4">>,
          LibPath("org.lwjgl.lwjgl", "lwjgl-platform", "2.9.4", ""),
          PlatformNatives, TRUE, PlatformClassifiers,
          RuleList(<<Rule("allow", FALSE, "", "", FALSE, {}),
                     Rule("disallow", TRUE, "osx", "", FALSE, {})>>)),
    NvLib(<<"net.java.jinput", "jinput-platform", "2.0.5">>, NoPath,
          PlatformNatives, TRUE, {"natives-osx"}, NoRules),
    NvLib(<<"com.example", "lib", "2.0">>, LibPath("com.example", "lib", "2.0", ""),
          NoNatives, FALSE, {}, NoRules),
    NvInvalidLib }

\* os.platform() and os.arch() of the hosts explored
NvHosts ==
  { [platform |-> "linux", arch |-> "x64"], [platform |-> "win32", arch |-> "x64"],
    [platform |-> "darwin", arch |-> "arm64"], [platform |-> "freebsd", arch |-> "x64"] }

\* nativeOsName of extractNatives; "" for null
nativeOsName(currentOsPlatform) ==
  CASE currentOsPlatform = "win32" -> "windows"
    [] currentOsPlatform = "darwin" -> "osx"
    [] currentOsPlatform = "linux" -> "linux"
    [] OTHER -> ""

\* nameParts.length > 3 ? nameParts.slice(3).join('-') : null  ("" for null)
NameClassifier(lib) == IF Len(lib.name) > 3 THEN lib.name[4] ELSE ""

\* classifier.startsWith(prefix), on the classifiers explored
ClassifierStartsWith(classifier, prefix) ==
  prefix \in CASE classifier = "natives-linux" -> {"natives-linux"}
              [] classifier = "natives-osx" -> {"natives-osx"}
              [] classifier = "natives-macos" -> {"natives-macos"}
              [] classifier = "natives-macos-arm64" -> {"natives-macos"}
              [] classifier = "natives-windows" -> {"natives-windows"}
              [] OTHER -> {}

primaryConditionMet(lib, os) ==
  LET classifier == NameClassifier(lib)
  IN IF classifier = "" THEN FALSE
     ELSE IF os = "osx"
          THEN ClassifierStartsWith(classifier, "natives-macos")
                 \/ ClassifierStartsWith(classifier, "natives-osx")
          ELSE ClassifierStartsWith(classifier, "natives-" \o os)

\* archToken of the fallback path
archToken(os, currentArch) ==
  CASE os = "linux" /\ currentArch = "x64" -> "x86_64"
    [] os = "linux" /\ currentArch = "arm64" -> "aarch_64"
    [] os = "windows" /\ currentArch = "x64" -> "64"
    [] os = "windows" /\ currentArch = "ia32" -> "x86"
    [] os = "osx" /\ currentArch = "x64" -> "x86_64"
    [] OTHER -> currentArch

\* nativeClassifierKey: archPlaceholder.replace('${arch}', archToken)
nativeClassifierKey(archPlaceholder, os, currentArch) ==
  IF archPlaceholder.arch THEN archPlaceholder.text \o archToken(os, currentArch)
  ELSE archPlaceholder.text

\* path.join(paths.librariesPath, lib.downloads.classifiers[key].path)
ClassifierPath(lib, key) == LibPath(lib.name[1], lib.name[2], lib.name[3], key)

NvEvent(i, route, path, outcome) ==
  [lib |-> i, route |-> route, path |-> path, outcome |-> outcome]

\* await extract(jar, ...) inside its own try/catch
ExtractOutcome(path, in) ==
  IF path \notin in.disk THEN "missing"
  ELSE IF path \in in.corrupt THEN "failed" ELSE "extracted"

\* The primary method of the loop body for library i: the events it adds.
PrimaryEvents(i, lib, os, in) ==
  IF ~primaryConditionMet(lib, os) THEN <<>>
  ELSE IF lib.artifactPath = NoPath THEN <<NvEvent(i, "a", NoPath, "nopath")>>
  ELSE <<NvEvent(i, "a", lib.artifactPath, ExtractOutcome(lib.artifactPath, in))>>

\* The fallback method of the loop body for library i.
FallbackEvents(i, lib, os, in, extractedThisLib) ==
  IF extractedThisLib \/ ~(os \in DOMAIN lib.nativesMap /\ lib.hasClassifiers)
  THEN <<>>
  ELSE LET key == nativeClassifierKey(lib.nativesMap[os], os, in.host.arch)
       IN IF key \notin lib.classifiers THEN <<NvEvent(i, "b", NoPath, "nokey")>>
          ELSE <<NvEvent(i, "b", ClassifierPath(lib, key),
                         ExtractOutcome(ClassifierPath(lib, key), in))>>

RECURSIVE NativesLoop(_, _, _, _)
\* for (const lib of versionDetails.libraries), from library i on; acc is
\* [events, thrown].  lib.name.includes of an entry without a name throws.
NativesLoop(i, os, in, acc) ==
  IF i > Len(in.libraries) \/ acc.thrown THEN acc
  ELSE LET lib == in.libraries[i]
           allowLibByRules ==
             rulesEvery(lib.rules, ExtractionContext([name |-> os, arch |-> in.host.arch]))
       IN IF ~lib.valid THEN [acc EXCEPT !.thrown = TRUE]
          ELSE IF ~allowLibByRules THEN NativesLoop(i + 1, os, in, acc)
          ELSE LET primary == PrimaryEvents(i, lib, os, in)
                   extractedThisLib ==
                     primary # <<>> /\ primary[1].outcome = "extracted"
                   fallback == FallbackEvents(i, lib, os, in, extractedThisLib)
               IN NativesLoop(i + 1, os, in,
                              [acc EXCEPT !.events = @ \o primary \o fallback])

Extracted(events) == {k \in DOMAIN events : events[k].outcome = "extracted"}

\* extractNatives(versionDetails, paths, mainWindow): ret is the boolean
\* returned, error whether the ERROR status was sent.
extractNatives(in) ==
  IF in.prepFails THEN [ret |-> FALSE, error |-> TRUE, extractionCount |-> 0, events |-> <<>>]
  ELSE LET os == nativeOsName(in.host.platform)
       IN IF os = ""
          THEN [ret |-> TRUE, error |-> FALSE, extractionCount |-> 0, events |-> <<>>]
          ELSE LET acc == NativesLoop(1, os, in, [events |-> <<>>, thrown |-> FALSE])
               IN [ret |-> ~acc.thrown, error |-> acc.thrown,
                   extractionCount |-> Cardinality(Extracted(acc.events)),
                   events |-> acc.events]

\* The archives extractNatives may look for on disk for these libraries.
NvPaths(libs) ==
  UNION {{libs[i].artifactPath} \cup
           {ClassifierPath(libs[i], k) : k \in libs[i].classifiers} :
         i \in {j \in DOMAIN libs : libs[j].valid}} \ {NoPath}

NvInput(libs, host, disk, corrupt, prepFails) ==
  [libraries |-> libs, host |-> host, disk |-> disk, corrupt |-> corrupt,
   prepFails |-> prepFails]
NvNoOutput == [ret |-> TRUE, error |-> FALSE, extractionCount |-> 0, events |-> <<>>]

NativesIdle ==
  /\ nvIn = NvInput(<<>>, [platform |-> "linux", arch |-> "x64"], {}, {}, FALSE)
  /\ nvPc = "done"
  /\ nvOut = NvNoOutput
NativesInit ==
  /\ \E libs \in SeqsUpTo(NvLibs, MaxLibs), host \in NvHosts, prepFails \in BOOLEAN :
       \E disk \in SUBSET NvPaths(libs) : \E corrupt \in SUBSET disk :
         nvIn = NvInput(libs, host, disk, corrupt, prepFails)
  /\ nvPc = "ready"
  /\ nvOut = NvNoOutput

\* launchVersion awaits extractNatives(versionDetails, paths, mainWindow).
ExtractNatives ==
  /\ UNCHANGED <<varsBase, varsPh, varsArgs, varsProgress, varsEnum, varsAssets,
                 varsArgv, varsClient>>
  /\ nvPc = "ready"
  /\ nvOut' = extractNatives(nvIn)
  /\ nvPc' = "done"
  /\ UNCHANGED nvIn

NextNatives ==
  \/ ExtractNatives

(* ================= launchVersion: the command's arguments ============== *)
MaxCustomTokens == 2 \* pieces settings.jvmArguments splits into at spaces

defaultMemoryMinimum == 512
defaultMemoryMaximum == 4096

\* Entries of arguments.jvm and arguments.game of the definitions explored.
JvmTemplateEntries ==
  { StringArg(<<"-cp">>), StringArg(<<"-classpath">>),
    StringArg(<<Placeholder("classpath")>>),
    StringArg(<<Placeholder("auth_player_name")>>),
    RuleBasedArgument(RuleList(<<Rule("allow", TRUE, "osx", "", FALSE, {})>>), FALSE,
                      <<<<"-XstartOnFirstThread">>>>),
    RuleBasedArgument(RuleList(<<Rule("allow", TRUE, "windows", "", FALSE, {})>>), TRUE,
                      <<<<"-cp">>, <<Placeholder("classpath")>>>>) }
GameTemplates ==
  { <<>>, <<StringArg(<<"--username">>), StringArg(<<Placeholder("auth_player_name")>>)>> }

\* The pieces of settings.jvmArguments between spaces: empty between two
\* spaces, a flag, or a flag with other white space around it.
CustomTokens == {"", "-Dx=1", "\t-Dy=2\t"}
\* arg.trim()
Trim(token) == IF token = "\t-Dy=2\t" THEN "-Dy=2" ELSE token

RECURSIVE customJvmArgs(_)
\* (settings.jvmArguments || '').split(' ').map(trim).filter(arg => arg !== '')
customJvmArgs(tokens) ==
  IF tokens = <<>> THEN <<>>
  ELSE (IF Trim(Head(tokens)) # "" THEN <<<<Trim(Head(tokens))>>>> ELSE <<>>)
       \o customJvmArgs(Tail(tokens))

\* [`-Xms${minMemory}M`, `-Xmx${maxMemory}M`]; 0 is an unset setting
memoryArgs(settings) ==
  LET minMemory == IF settings.memoryMinimum # 0 THEN settings.memoryMinimum
                   ELSE defaultMemoryMinimum
      maxMemory == IF settings.memoryMaximum # 0 THEN settings.memoryMaximum
                   ELSE defaultMemoryMaximum
  IN << <<"-Xms" \o ToString(minMemory) \o "M">>, <<"-Xmx" \o ToString(maxMemory) \o "M">> >>

\* The variables record, in property order, as far as the templates use it.
LaunchVariables(in) ==
  << <<"classpath", in.classpath>>, <<"auth_player_name", in.username>> >>

\* as finalCommandArgs, the launcher adding -cp whatever the manifest holds
finalCommandArgsAlwaysCp(in) ==
  LET variables == LaunchVariables(in)
      processedBaseJvmArgs == processArguments(in.jvm, variables, in.host)
      processedGameArgs == processArguments(in.game, variables, in.host)
      assembledJvmArgs ==
        memoryArgs(in.settings) \o processedBaseJvmArgs \o customJvmArgs(in.settings.jvmArguments)
  IN assembledJvmArgs \o << <<"-cp">>, in.classpath, in.mainClass >> \o processedGameArgs
\* finalCommandArgs of launchVersion (steps 5 and 6)
finalCommandArgs(in) ==
  LET variables == LaunchVariables(in)
      processedBaseJvmArgs == processArguments(in.jvm, variables, in.host)
      processedGameArgs == processArguments(in.game, variables, in.host)
      assembledJvmArgs ==
        memoryArgs(in.settings) \o processedBaseJvmArgs \o customJvmArgs(in.settings.jvmArguments)
      cpFlagInManifestArgs ==
        \E i \in DOMAIN processedBaseJvmArgs : processedBaseJvmArgs[i] = <<"-cp">>
  IN IF cpFlagInManifestArgs
     THEN assembledJvmArgs \o <<in.mainClass>> \o processedGameArgs
     ELSE assembledJvmArgs \o << <<"-cp">>, in.classpath, in.mainClass >> \o processedGameArgs

ArgvIdle ==
  /\ avIn = [jvm |-> <<>>, game |-> <<>>, username |-> <<"Steve">>,
             classpath |-> <<"client.jar">>, mainClass |-> <<"Main">>,
             settings |-> [memoryMinimum |-> 0, memoryMaximum |-> 0, jvmArguments |-> <<"">>],
             host |-> [platform |-> "linux", hostArch |-> "x64"]]
  /\ avPc = "done"
  /\ avOut = <<>>
ArgvInit ==
  /\ \E jvm \in SeqsUpTo(JvmTemplateEntries, MaxEntries), game \in GameTemplates,
        username \in {<<"Steve">>, <<"-cp">>},
        tokens \in SeqsUpTo(CustomTokens, MaxCustomTokens) \ {<<>>},
        memory \in {<<0, 0>>, <<1024, 2048>>},
        platform \in {"linux", "darwin", "win32"} :
       avIn = [jvm |-> jvm, game |-> game, username |-> username,
               classpath |-> <<"lib.jar", ":", "client.jar">>,
               mainClass |-> <<"net.minecraft.client.main.Main">>,
               settings |-> [memoryMinimum |-> memory[1], memoryMaximum |-> memory[2],
                             jvmArguments |-> tokens],
               host |-> [platform |-> platform, hostArch |-> "x64"]]
  /\ avPc = "ready"
  /\ avOut = <<>>

\* launchVersion processes the arguments and constructs the command.
ConstructCommand ==
  /\ UNCHANGED <<varsBase, varsPh, varsArgs, varsProgress, varsEnum, varsAssets,
                 varsNatives, varsClient>>
  /\ avPc = "ready"
  /\ avOut' = finalCommandArgs(avIn)
  /\ avPc' = "done"
  /\ UNCHANGED avIn

NextArgv ==
  \/ ConstructCommand

(* ========== launchVersion: the client archive, fetched and used ======== *)
\* A version JSON as far as the client archive goes: hasDownloads is the
\* downloads member being present, hasClient downloads.client.
ClientJson(id, hasDownloads, hasClient) ==
  [id |-> id, hasDownloads |-> hasDownloads, hasClient |-> hasDownloads /\ hasClient]

\* mergeVersionDetails(parentDetails, childDetails): id, inheritsFrom, downloads
MergedClient(parentDetails, childDetails) ==
  [id |-> childDetails.id, inheritsFrom |-> parentDetails.id,
   hasDownloads |-> parentDetails.hasDownloads \/ childDetails.hasDownloads,
   hasClient |-> IF childDetails.hasDownloads THEN childDetails.hasClient
                 ELSE parentDetails.hasClient]

\* The definitions getVersionDetails resolves: a standalone version, and a
\* version merged onto its parent, itself standalone or merged.
ResolvedClients ==
  LET standalone == {[id |-> "1.20.1", inheritsFrom |-> NoParent, hasDownloads |-> TRUE,
                      hasClient |-> c] : c \in BOOLEAN}
      children(id) == {ClientJson(id, d, c) : d \in BOOLEAN, c \in BOOLEAN}
      modded == {MergedClient(p, ch) : p \in standalone, ch \in children("1.20.1-modded")}
      optifine == {MergedClient(p, ch) : p \in modded, ch \in children("1.20.1-OptiFine")}
  IN standalone \cup modded \cup optifine

ClientLibs ==
  { CpLib(<<"com.example", "lib", "2.0">>, LibPath("com.example", "lib", "2.0", ""),
          FALSE, NoRules),
    CpLib(Lwjgl("3.2.2"), LibPath("org.lwjgl", "lwjgl", "3.2.2", ""), FALSE, NoRules) }

\* The definition as getRequiredInitialDownloads and buildClasspath read it.
ClientDefinition(resolved, libs) ==
  [id |-> resolved.id, inheritsFrom |-> resolved.inheritsFrom,
   hasClient |-> resolved.hasClient, libraries |-> libs,
   hasAssetIndex |-> TRUE, hasLogFile |-> FALSE]

\* The files a successful download stage leaves at the tasks' destinations.
Destinations(tasks) == {tasks[i].destination : i \in DOMAIN tasks}

ClientIdle ==
  /\ cjDef = ClientDefinition([id |-> "1.20.1", inheritsFrom |-> NoParent,
                               hasClient |-> FALSE], <<>>)
  /\ cjPc = "built"
  /\ cjRun = [tasks |-> <<>>, files |-> {}, classpath |-> <<>>]
ClientInit ==
  /\ \E resolved \in ResolvedClients, libs \in SeqsUpTo(ClientLibs, MaxLibs) :
       cjDef = ClientDefinition(resolved, libs)
  /\ cjPc = "ready"
  /\ \E files \in SUBSET {ClientJarPath(v) : v \in VersionIds} :
       cjRun = [tasks |-> <<>>, files |-> files, classpath |-> <<>>]

\* launchVersion enumerates the core downloads of the definition.
EnumerateCore ==
  /\ UNCHANGED <<varsBase, varsPh, varsArgs, varsProgress, varsEnum, varsAssets,
                 varsNatives, varsArgv>>
  /\ cjPc = "ready"
  /\ cjRun' = [cjRun EXCEPT !.tasks = getRequiredInitialDownloads(cjDef)]
  /\ cjPc' = "enumerated"
  /\ UNCHANGED cjDef

\* The download stage ends: with every task fetched and valid, or with a
\* failure that ends the launch.
CoreDownloaded ==
  /\ UNCHANGED <<varsBase, varsPh, varsArgs, varsProgress, varsEnum, varsAssets,
                 varsNatives, varsArgv>>
  /\ cjPc = "enumerated"
  /\ \/ /\ cjRun' = [cjRun EXCEPT !.files = @ \cup Destinations(cjRun.tasks)]
        /\ cjPc' = "downloaded"
     \/ /\ cjRun.tasks # <<>>
        /\ \E done \in SUBSET Destinations(cjRun.tasks) :
             /\ done # Destinations(cjRun.tasks)
             /\ cjRun' = [cjRun EXCEPT !.files = @ \cup done]
        /\ cjPc' = "failed"
  /\ UNCHANGED cjDef

\* launchVersion builds the classpath of the definition.
BuildClientClasspath ==
  /\ UNCHANGED <<varsBase, varsPh, varsArgs, varsProgress, varsEnum, varsAssets,
                 varsNatives, varsArgv>>
  /\ cjPc = "downloaded"
  /\ cjRun' = [cjRun EXCEPT !.classpath = buildClasspath(cjDef, cjRun.files)]
  /\ cjPc' = "built"
  /\ UNCHANGED cjDef

NextClient ==
  \/ EnumerateCore
  \/ CoreDownloaded
  \/ BuildClientClasspath

PrepIdle == NativesIdle /\ ArgvIdle /\ ClientIdle

MoreIdle == PhIdle /\ ArgsIdle /\ ProgressIdle /\ EnumIdle /\ AssetsIdle /\ PrepIdle

(* ========================== specifications ============================= *)
vars == <<varsPool, varsFile, varsLaunch, varsResolve, varsPure>>

PureIdle == MergeIdle /\ RuleIdle /\ CpIdle /\ MoreIdle

InitPool == PoolInit /\ FileIdle /\ LaunchInit /\ ResolveIdle /\ PureIdle
SpecPool == InitPool /\ [][NextPool]_vars
SpecPoolSink == InitPool /\ [][NextPoolSink]_vars

InitFile == PoolIdle /\ FileInit /\ LaunchInit /\ ResolveIdle /\ PureIdle
SpecFile == InitFile /\ [][NextFile]_vars

InitLaunch == PoolIdle /\ FileIdle /\ LaunchInit /\ ResolveIdle /\ PureIdle
SpecLaunch == InitLaunch /\ [][NextLaunch]_vars
SpecSupervisor == InitLaunch /\ [][NextSupervisor]_vars

InitResolve == PoolIdle /\ FileIdle /\ LaunchInit /\ ResolveInit /\ PureIdle
SpecResolve == InitResolve /\ [][NextResolve]_vars

InitMergeLibs ==
  PoolIdle /\ FileIdle /\ LaunchInit /\ ResolveIdle /\ MergeLibsInit /\ RuleIdle /\ CpIdle
    /\ MoreIdle
SpecMergeLibs == InitMergeLibs /\ [][NextMerge]_vars

InitMergeArgs ==
  PoolIdle /\ FileIdle /\ LaunchInit /\ ResolveIdle /\ MergeArgsInit /\ RuleIdle /\ CpIdle
    /\ MoreIdle
SpecMergeArgs == InitMergeArgs /\ [][NextMerge]_vars

InitRule ==
  PoolIdle /\ FileIdle /\ LaunchInit /\ ResolveIdle /\ MergeIdle /\ RuleInit /\ CpIdle
    /\ MoreIdle
SpecRule == InitRule /\ [][NextRule]_vars

InitOsVersion ==
  /\ PoolIdle /\ FileIdle /\ LaunchInit /\ ResolveIdle
  /\ MergeIdle /\ CpIdle /\ MoreIdle
  /\ OsVersionInit
SpecOsVersion == InitOsVersion /\ [][NextRule]_vars

InitOsName ==
  PoolIdle /\ FileIdle /\ LaunchInit /\ ResolveIdle /\ MergeIdle /\ OsNameInit /\ CpIdle
    /\ MoreIdle
SpecOsName == InitOsName /\ [][NextRule]_vars

InitClasspath ==
  PoolIdle /\ FileIdle /\ LaunchInit /\ ResolveIdle /\ MergeIdle /\ RuleIdle /\ CpInit
    /\ MoreIdle
SpecClasspath == InitClasspath /\ [][NextClasspath]_vars

BaseIdle ==
  /\ PoolIdle /\ FileIdle /\ LaunchInit /\ ResolveIdle
  /\ MergeIdle /\ RuleIdle /\ CpIdle

InitPlaceholders ==
  BaseIdle /\ PhInit /\ ArgsIdle /\ ProgressIdle /\ EnumIdle /\ AssetsIdle /\ PrepIdle
SpecPlaceholders == InitPlaceholders /\ [][NextPlaceholders]_vars

InitArguments ==
  BaseIdle /\ PhIdle /\ ArgsInit /\ ProgressIdle /\ EnumIdle /\ AssetsIdle /\ PrepIdle
SpecArguments == InitArguments /\ [][NextArguments]_vars

InitProgress ==
  BaseIdle /\ PhIdle /\ ArgsIdle /\ ProgressInit /\ EnumIdle /\ AssetsIdle /\ PrepIdle
SpecProgress == InitProgress /\ [][NextProgress]_vars

InitEnum ==
  BaseIdle /\ PhIdle /\ ArgsIdle /\ ProgressIdle /\ EnumInit /\ AssetsIdle /\ PrepIdle
SpecEnum == InitEnum /\ [][NextEnum]_vars

MoreReady == PhIdle /\ ArgsIdle /\ ProgressIdle /\ EnumIdle /\ AssetsIdle

InitNatives == BaseIdle /\ MoreReady /\ NativesInit /\ ArgvIdle /\ ClientIdle
SpecNatives == InitNatives /\ [][NextNatives]_vars

InitArgv == BaseIdle /\ MoreReady /\ NativesIdle /\ ArgvInit /\ ClientIdle

InitClient == BaseIdle /\ MoreReady /\ NativesIdle /\ ArgvIdle /\ ClientInit
SpecClient == InitClient /\ [][NextClient]_vars
SpecArgv == InitArgv /\ [][NextArgv]_vars

InitAssets ==
  BaseIdle /\ PhIdle /\ ArgsIdle /\ ProgressIdle /\ EnumIdle /\ AssetsInit /\ PrepIdle
SpecAssets == InitAssets /\ [][NextAssets]_vars

(* ============================== claims ================================= *)
Last(s) == s[Len(s)]

\* C1: during a run of downloadMultipleFiles the number of tasks whose
\* downloadFile call has started and not yet settled never exceeds parallelLimit.
C1_InFlightAtMostLimit == Cardinality(InFlight) <= parallelLimit

\* C2: a launch request arriving while an earlier attempt is still in its
\* download, asset or natives stage is rejected, so at most one attempt is
\* inside the pipeline at any time.
PipelineStages == {"core_dl", "read_index", "asset_dl", "natives", "mkdir_game"}
C2_NoConcurrentPipelines ==
  Cardinality({a \in Attempts : att[a].pc \in PipelineStages}) <= 1

\* C3: at most one child process spawned by the supervisor is alive (spawned
\* and not yet exited) at any instant.
C3_AtMostOneAlive == Cardinality({p \in Attempts : proc[p] = "alive"}) <= 1

\* C4: launchVersion invoked while runningProcess is set returns the 'Game
\* already running' failure, having emitted that one error and having changed
\* nothing else: no stage run, no process spawned, runningProcess unchanged.
C4_AlreadyRunningNoEffect ==
  [][(nLaunch' = nLaunch + 1 /\ runningProcess # 0
        /\ att'[nLaunch'].ret # "setup_failed")
     => /\ att'[nLaunch'] =
             EndWithError([NewAttempt EXCEPT !.sawRunning = TRUE], "already_running")
        /\ \A b \in Attempts \ {nLaunch'} : att'[b] = att[b]
        /\ UNCHANGED <<runningProcess, proc, signals>>]_vars

SpawnHistories ==
  {<<"core", "index", "assets", "natives", "spawn">>,
   <<"core", "index", "natives", "spawn">>,
   <<"index", "assets", "natives", "spawn">>,
   <<"index", "natives", "spawn">>}
C8_FailureKindsSeparated ==
  poolPc = "returned"
    => /\ poolRet.validationFailures =
            Cardinality({t \in Tasks : dlResult[t].success /\ ~dlResult[t].validationPassed})
       /\ poolRet.failureCount =
            Cardinality({t \in Tasks : ~dlResult[t].success})

\* C9: every launch attempt that ends without spawning a process has emitted
\* exactly one launch-status event with status ERROR, as its last event.
C9_OneTerminalError ==
  \A a \in Attempts :
    (att[a].pc = "ended" /\ att[a].pid = 0)
      => /\ att[a].errors = 1
         /\ att[a].log # <<>>
         /\ Last(att[a].log) = "error"

\* C10: getVersionDetails never returns a definition that lacks the
\* contribution of a version of the inheritance chain of the requested
\* version; when an ancestor is unavailable it returns null.
RECURSIVE Chain(_, _)
HasJson(id) == cacheState[id] = "present" \/ inManifest[id]
Chain(id, fuel) ==
  IF fuel = 0 THEN {}
  ELSE {id} \cup (IF HasJson(id) /\ parentOf[id] # NoParent
                  THEN Chain(parentOf[id], fuel - 1) ELSE {})
C10_NoPartialDefinition ==
  gvOut.kind = "details"
    => \A u \in Chain(gvReq, Cardinality(VersionIds)) :
         OwnLib(u) \in Range(gvOut.libraries)

\* C11 (as stated): every definition returned by getVersionDetails carries no
\* inheritsFrom field.
C11_NoInheritsFrom == gvOut.kind = "details" => gvOut.inheritsFrom = NoParent

\* C11 (amended): a definition returned by getVersionDetails carries
\* inheritsFrom exactly when the JSON of the requested version names a parent,
\* and then it is the id of that direct parent.
C11_InheritsFromIsDirectParent ==
  gvOut.kind = "details" => gvOut.inheritsFrom = parentOf[gvReq]
C11_Witness ==
  /\ gvOut.kind = "details"
  /\ parentOf[gvReq] \notin {NoParent, gvReq}
  /\ gvOut.inheritsFrom = parentOf[gvReq]
  /\ gvOut.jvm = <<parentOf[gvReq], gvReq>>

\* C12: in every definition returned by getVersionDetails no two entries of
\* libraries carry the same full library name.
C12_UniqueLibraryNames ==
  gvOut.kind = "details"
    => \A i, j \in DOMAIN gvOut.libraries :
         i # j => gvOut.libraries[i].name # gvOut.libraries[j].name

\* The two definitions handed to the first mergeVersionDetails call.
mParent == mInputs[1]
mChild == mInputs[2]
PLib(n) == [name |-> n, of |-> "parent", variant |-> 1]
CLib(n) == [name |-> n, of |-> "child", variant |-> 1]

\* C13 (as stated): parent libraries {A@1, B@1} merged with child libraries
\* {B@2, C@1} give exactly {A@1, B@2, C@1}.
C13_ChildVersionReplacesParent ==
  (/\ mDone = 2
   /\ mParent.libraries = <<PLib(LibA1), PLib(LibB1)>>
   /\ mChild.hasLibraries /\ mChild.libraries = <<CLib(LibB2), CLib(LibC1)>>)
    => Range(mMerged.libraries) = {PLib(LibA1), CLib(LibB2), CLib(LibC1)}

\* C13 (amended): parent {A@1, B@1} merged with child {B@2, C@1} gives
\* A@1, B@1, B@2, C@1; the child's entry replaces the parent's only when the
\* full name, version included, is the same: child {B@1, C@1} gives A@1, the
\* child's B@1, C@1.
C13_ChildReplacesSameFullName ==
  /\ (/\ mDone = 2
      /\ mParent.libraries = <<PLib(LibA1), PLib(LibB1)>>
      /\ mChild.hasLibraries /\ mChild.libraries = <<CLib(LibB2), CLib(LibC1)>>)
       => mMerged.libraries = <<PLib(LibA1), PLib(LibB1), CLib(LibB2), CLib(LibC1)>>
  /\ (/\ mDone = 2
      /\ mParent.libraries = <<PLib(LibA1), PLib(LibB1)>>
      /\ mChild.hasLibraries /\ mChild.libraries = <<CLib(LibB1), CLib(LibC1)>>)
       => mMerged.libraries = <<PLib(LibA1), CLib(LibB1), CLib(LibC1)>>
C13_Witness ==
  /\ mDone = 2
  /\ mParent.libraries = <<PLib(LibA1), PLib(LibB1)>>
  /\ mChild.libraries = <<CLib(LibB2), CLib(LibC1)>>
  /\ Len(mMerged.libraries) = 4

\* C14: every parent library entry whose name the child does not define is
\* still an entry of the merged definition, and mainClass is the parent's when
\* the child defines none.
C14_ParentLibrariesKept ==
  mDone = 2
    => /\ \A i \in DOMAIN mParent.libraries :
            (\A j \in DOMAIN mChild.libraries :
               mChild.libraries[j].name # mParent.libraries[i].name)
              => mParent.libraries[i] \in Range(mMerged.libraries)
       /\ mChild.mainClass = "" => mMerged.mainClass = mParent.mainClass

RECURSIVE JvmOfChain(_), GameOfChain(_)
JvmOfChain(defs) ==
  IF defs = <<>> THEN <<>>
  ELSE JvmOfChain(SubSeq(defs, 1, Len(defs) - 1)) \o defs[Len(defs)].jvm
GameOfChain(defs) ==
  IF defs = <<>> THEN <<>>
  ELSE GameOfChain(SubSeq(defs, 1, Len(defs) - 1)) \o defs[Len(defs)].game

\* C15: merged arguments.jvm is the parent's list followed by the child's, and
\* likewise arguments.game, nothing removed or deduplicated; along a chain the
\* lists follow each other root-most ancestor first.
C15_ArgumentsParentThenChild ==
  mDone >= 2
    => /\ mMerged.jvm = JvmOfChain(SubSeq(mInputs, 1, mDone))
       /\ mMerged.game = GameOfChain(SubSeq(mInputs, 1, mDone))
       /\ mMerged.hasArguments
C15_Witness ==
  /\ mDone = 3
  /\ mInputs[1].jvm = <<"-X">> /\ mInputs[2].jvm = <<"-Y">> /\ mInputs[3].jvm = <<"-X">>
  /\ mMerged.jvm = <<"-X", "-Y", "-X">>
  /\ mMerged.game = <<"--demo", "--demo">>

\* C16: two getVersionDetails calls in a row for the same versionId, with every
\* version of its chain in the cache when the second is made, return the same
\* definition.
RECURSIVE Ancestry(_, _)
Ancestry(id, fuel) ==
  IF fuel = 0 THEN {}
  ELSE {id} \cup (IF parentOf[id] # NoParent THEN Ancestry(parentOf[id], fuel - 1) ELSE {})
C16_SameResultTwice ==
  (/\ gvCalls >= 2 /\ gvStack = <<>> /\ gvOut.kind # "pending"
   /\ gvPrevReq = gvReq
   /\ gvPrevOut.kind # "pending"
   /\ \A u \in Ancestry(gvReq, Cardinality(VersionIds)) : cacheAtCall[u] = "present")
    => gvOut = gvPrevOut

\* C17: with an explicit context, a rules array evaluates to true when it is
\* empty or absent, and otherwise to the conjunction over its rules of
\* `satisfied` for an allow rule and `not satisfied` for a disallow rule, where
\* satisfied means the os constraint and the feature constraint both match.
OsMatches(rule, ctx) ==
  rule.hasOs => /\ rule.name # "" => rule.name = ctx.name
                /\ rule.arch # "" => rule.arch = ctx.arch
FeaturesMatch(rule, ctx) ==
  rule.hasFeatures =>
    \A key \in FeatureKeys : <<key, TRUE>> \in rule.features => key \in ctx.features
Satisfied(rule, ctx) == OsMatches(rule, ctx) /\ FeaturesMatch(rule, ctx)
AllowWindows == Rule("allow", TRUE, "windows", "", FALSE, {})
DisallowWindows == Rule("disallow", TRUE, "windows", "", FALSE, {})
C17_RuleListIsConjunction ==
  (rulePc = "done" /\ ruleCtx.given)
    => /\ ruleOut =
            (\A i \in DOMAIN ruleList.rules :
               IF ruleList.rules[i].action = "allow"
               THEN Satisfied(ruleList.rules[i], ruleCtx)
               ELSE ~Satisfied(ruleList.rules[i], ruleCtx))
       /\ (~ruleList.has \/ ruleList.rules = <<>>) => ruleOut
       /\ ruleList.rules = <<AllowWindows>> => (ruleOut <=> ruleCtx.name = "windows")
       /\ ruleList.rules = <<DisallowWindows>> => (ruleOut <=> ruleCtx.name # "windows")
C17_Witness ==
  /\ rulePc = "done" /\ ruleCtx.given /\ ruleCtx.name = "windows"
  /\ ruleList.rules = <<AllowWindows, DisallowWindows>>
  /\ ~ruleOut

\* What the classpath claims say of a library entry of cpDef.
CpLibAt(i) == cpDef.libraries[i]
HasPath(lib) == lib.valid /\ Len(lib.name) >= 2 /\ LibFullPath(lib) # NoPath
KeyOf(lib) == <<lib.name[1], lib.name[2]>>
\* native-only: a ':natives-' classifier in the name, '-natives-' in the
\* artifact file name, or a natives mapping
NativeOnly(lib) ==
  \/ lib.natives
  \/ \E i \in 2..Len(lib.name) : StartsWithNatives(lib.name[i])
  \/ StartsWithNatives(LibFullPath(lib)[4])
\* classpath-eligible: a path can be determined, the entry is not native-only
\* and its archive is on disk
Eligible(lib) == HasPath(lib) /\ ~NativeOnly(lib) /\ LibFullPath(lib) \in cpFiles

\* C18: for a fixed definition and disk state buildClasspath returns the same
\* list on every call; the list holds one path per group:artifact key, and for
\* a key shared by several eligible entries it is the path of the last of them.
C18_OnePathPerKeyLaterWins ==
  cpCalls >= 1
    => /\ cpOut = cpFirst
       /\ \A m, n \in DOMAIN cpMap : m # n => cpMap[m].key # cpMap[n].key
       /\ SubSeq(cpOut, 1, Len(cpMap)) = [m \in DOMAIN cpMap |-> cpMap[m].path]
       /\ Len(cpOut) <= Len(cpMap) + 1
       /\ \A m \in DOMAIN cpMap :
            \E i \in DOMAIN cpDef.libraries :
              Eligible(CpLibAt(i)) /\ KeyOf(CpLibAt(i)) = cpMap[m].key
       /\ \A i \in DOMAIN cpDef.libraries :
            Eligible(CpLibAt(i))
              => LET sameKey == {j \in DOMAIN cpDef.libraries :
                                   /\ Eligible(CpLibAt(j))
                                   /\ KeyOf(CpLibAt(j)) = KeyOf(CpLibAt(i))}
                     last == CHOOSE j \in sameKey : \A k \in sameKey : k <= j
                 IN \E m \in DOMAIN cpMap :
                      /\ cpMap[m].key = KeyOf(CpLibAt(i))
                      /\ cpMap[m].path = LibFullPath(CpLibAt(last))
C18_Witness ==
  /\ cpCalls = 2
  /\ Len(cpDef.libraries) = 2
  /\ Eligible(CpLibAt(1)) /\ Eligible(CpLibAt(2))
  /\ KeyOf(CpLibAt(1)) = KeyOf(CpLibAt(2))
  /\ LibFullPath(CpLibAt(1)) # LibFullPath(CpLibAt(2))
  /\ cpOut = <<LibFullPath(CpLibAt(2)), ClientJarPath("1.20.1")>>

\* C19: no path of a library whose rules evaluate to false in the context of
\* the host appears in the classpath buildClasspath returns.
C19_RuleDisallowedOmitted ==
  cpCalls >= 1
    => \A i \in DOMAIN cpDef.libraries :
         (/\ HasPath(CpLibAt(i))
          /\ ~rulesEvery(CpLibAt(i).rules, Context(cpHost, "x64", {})))
           => LibFullPath(CpLibAt(i)) \notin Range(cpOut)

\* C20 (as stated): no entry of the classpath is the archive of a library
\* entry identified as native-only.
C20_NoNativeArchive ==
  cpCalls >= 1
    => \A i \in DOMAIN cpDef.libraries :
         (HasPath(CpLibAt(i)) /\ NativeOnly(CpLibAt(i)))
           => LibFullPath(CpLibAt(i)) \notin Range(cpOut)

\* C20 (amended): no entry of the classpath is put there by a native-only
\* library entry: every entry is the client jar or the path of a library entry
\* that is not native-only.
C20_NoEntryFromNativeOnly ==
  cpCalls >= 1
    => \A k \in DOMAIN cpOut :
         \/ cpOut[k] = ClientJarPath(IF cpDef.inheritsFrom # NoParent
                                     THEN cpDef.inheritsFrom ELSE cpDef.id)
         \/ \E i \in DOMAIN cpDef.libraries :
              /\ HasPath(CpLibAt(i)) /\ ~NativeOnly(CpLibAt(i))
              /\ LibFullPath(CpLibAt(i)) = cpOut[k]
C20_Witness ==
  /\ cpCalls >= 1
  /\ Len(cpDef.libraries) = 2
  /\ CpLibAt(1).natives /\ LibFullPath(CpLibAt(1)) \in cpFiles
  /\ Eligible(CpLibAt(2))
  /\ cpOut = <<LibFullPath(CpLibAt(2))>>
  /\ LibFullPath(CpLibAt(1)) \notin Range(cpOut)

\* C21: a 'kill-game' request with no tracked process changes nothing of the
\* launcher's state (no signal, no error status); with a tracked process it
\* makes exactly one SIGTERM request to that process and to no other, and the
\* tracked handle is cleared on return, whatever the state of the process.
C21_KillEffect ==
  [][nKill' = nKill + 1 =>
       IF runningProcess = 0
       THEN UNCHANGED <<runningProcess, proc, signals, nLaunch, att>>
       ELSE /\ signals' = [signals EXCEPT ![runningProcess] = @ + 1]
            /\ runningProcess' = 0
            /\ UNCHANGED <<proc, nLaunch, att>>]_vars

\* A kill request was served while the spawned process was tracked and alive:
\* one signal requested, handle cleared, the process still not exited.
C21_Witness ==
  /\ nKill > 0
  /\ runningProcess = 0
  /\ \E p \in Attempts : proc[p] = "alive" /\ signals[p] = 1

\* C22: the launch-status events of an attempt follow idle -> preparing ->
\* downloading -> preparing -> launching -> running -> closed; in particular
\* a 'closed' event is reported only after a 'running' event of the attempt.
C22_ClosedOnlyAfterRunning ==
  \A a \in Attempts :
    \A i \in 1..Len(att[a].log) :
      att[a].log[i] = "closed" =>
        \E j \in 1..(i - 1) : att[a].log[j] = "running"

\* The RuleContext of a launch on the host: no feature flag is active.
LaunchContext(host) ==
  Context(CASE host.platform = "win32" -> "windows"
            [] host.platform = "darwin" -> "osx"
            [] OTHER -> host.platform,
          host.hostArch, {})

RECURSIVE RenderedWith(_, _, _)
\* The strings of the entries whose rules the context accepts, in template order.
RenderedWith(args, variables, context) ==
  IF args = <<>> THEN <<>>
  ELSE (IF Head(args).isString \/ rulesEvery(Head(args).rules, context)
        THEN replaceEach(Head(args).value, variables)
        ELSE <<>>)
       \o RenderedWith(Tail(args), variables, context)

\* C23: processArguments returns, in template order, the substituted literal
\* entries and the substituted values of exactly the conditional entries whose
\* rules are all accepted against the launch's context, where a feature flag
\* that is not active fails a rule requiring it.
C23_ConditionalOnlyIfAccepted ==
  argPc = "done" =>
    argOut = RenderedWith(argList, argVars, LaunchContext(argHost))

\* C24: replacePlaceholders returns the template with every ${key} of a key
\* of variables replaced by the value as it is, nothing inserted scanned
\* again, and every other ${name} left in place.
RECURSIVE VerbatimSubstitution(_, _)
VerbatimSubstitution(template, variables) ==
  IF template = <<>> THEN <<>>
  ELSE LET hits == {i \in DOMAIN variables : Placeholder(variables[i][1]) = Head(template)}
       IN (IF hits = {} THEN <<Head(template)>>
           ELSE variables[CHOOSE i \in hits : TRUE][2])
          \o VerbatimSubstitution(Tail(template), variables)

C24_VerbatimReplacement ==
  phPc = "done" => phOut = VerbatimSubstitution(phTemplate, phVars)

\* C25: the progress sink does not influence the download: against the same
\* network and filesystem behaviour, the run with a sink has made the same
\* attempts and requests, left the same file and ended the same way with the
\* same result as the run without one, whatever the deliveries did.
C25_SinkDoesNotInfluence == pgWith = pgWithout

\* C28: when downloadFile starts another attempt after a failed one, the
\* destination the failed attempt wrote has been deleted.
C28_PartialDeletedBeforeRetry ==
  (dfPc = "mkdir" /\ attempts > 1 /\ fileWrites > 0) => fileState = "absent"

\* C26: for every run-time OS/arch context and every library with an
\* artifact path, if the library's rules evaluate to true in that context as
\* extractNatives evaluates them, getRequiredInitialDownloads has enumerated
\* a task whose destination is that artifact path.
C26_DownloadCoversRuntimeAllowed ==
  enPc = "done" =>
    \A i \in DOMAIN enDef.libraries :
      LET lib == enDef.libraries[i]
      IN (lib.valid /\ lib.artifactPath # NoPath
            /\ rulesEvery(lib.rules, ExtractionContext(enCtx)))
         => \E t \in DOMAIN enTasks : enTasks[t].destination = lib.artifactPath

\* C27: no two download tasks that are in flight at the same time have the
\* same destination file, for the task list enumerated from an asset index.
C27_NoSharedDestinationInFlight ==
  \A i \in InFlight : \A j \in InFlight :
    i # j => asTasks[i].destination # asTasks[j].destination

\* C29: a run of downloadMultipleFiles whose attempts all complete or fail
\* ends by returning, and when it has ended no task is still in flight.
C29_EndsByReturningAllSettled ==
  /\ poolPc # "rejected"
  /\ poolPc \in {"returned", "rejected"} => InFlight = {}

\* The platform an OS name denotes, aliases mapped to one name.
Platform(name) ==
  CASE name \in {"osx", "macos", "darwin"} -> "osx"
    [] name \in {"windows", "win32"} -> "windows"
    [] OTHER -> name

\* C30: checkRule compares OS names after alias normalization, for every
\* name: a rule with only an os.name constraint is satisfied exactly when its
\* name and the context's name denote the same platform, names outside
\* windows / osx / linux included.
C30_OsNameAliasesNormalized ==
  (rulePc = "done" /\ ruleCtx.given /\ ruleList.has /\ Len(ruleList.rules) = 1
     /\ ruleList.rules[1].hasOs /\ ruleList.rules[1].name # ""
     /\ ruleList.rules[1].arch = "" /\ ~ruleList.rules[1].hasFeatures)
    => LET rule == ruleList.rules[1]
           satisfied == Platform(rule.name) = Platform(ruleCtx.name)
       IN ruleOut = (IF rule.action = "allow" THEN satisfied ELSE ~satisfied)

\* C31: a rule whose os member carries a version constraint that differs from
\* the context's OS version has osMatches false: alone in its rules array, an
\* allow rule is refused and a disallow rule lets the entry through.
C31_OsVersionConstraintChecked ==
  (rulePc = "done" /\ ruleCtx.given /\ ruleList.has /\ Len(ruleList.rules) = 1
     /\ ruleList.rules[1].hasOs /\ ruleList.rules[1].version # ""
     /\ ruleList.rules[1].version # ruleCtx.version)
    => ruleOut = (ruleList.rules[1].action # "allow")

\* C32: in extractNatives a library whose name classifier denotes natives for
\* the current OS (path a) is never processed by the natives-mapping path (b),
\* whether or not its archive was present and extracted, and at most one
\* archive is extracted per library.
C32_FirstMatchWins ==
  nvPc = "done" =>
    /\ \A k \in DOMAIN nvOut.events :
         nvOut.events[k].route = "b" =>
           ~primaryConditionMet(nvIn.libraries[nvOut.events[k].lib],
                                nativeOsName(nvIn.host.platform))
    /\ \A i \in DOMAIN nvIn.libraries :
         Cardinality({k \in Extracted(nvOut.events) : nvOut.events[k].lib = i}) <= 1

\* C33: extractNatives returns success exactly when the natives directory
\* could be cleared and recreated, whatever happens to the archives.
C33_FailsOnlyOnDirectory ==
  nvPc = "done" => (nvOut.ret <=> ~nvIn.prepFails)

\* C38: every archive extractNatives looks for on disk is the destination of a
\* download task that getRequiredInitialDownloads enumerates for the same
\* libraries.
C38_LookedForWasEnumerated ==
  nvPc = "done" =>
    LET tasks == LibraryTasks(nvIn.libraries)
    IN \A k \in DOMAIN nvOut.events :
         nvOut.events[k].path # NoPath =>
           \E t \in DOMAIN tasks : tasks[t].destination = nvOut.events[k].path

\* The flags by which a java command line names its class path.
ClasspathFlags == {<<"-cp">>, <<"-classpath">>, <<"--class-path">>}
\* The user-supplied extra flags: the non-blank pieces of settings.jvmArguments.
ExtraFlags(tokens) ==
  LET kept == SelectSeq(tokens, LAMBDA t : t \notin {"", "\t", " "})
  IN [i \in DOMAIN kept |-> <<Trim(kept[i])>>]
\* The argument vector with an explicit classpath flag exactly when none of
\* `flags` is among the rendered JVM template arguments.
ArgumentVector(in, flags) ==
  LET jvm == processArguments(in.jvm, LaunchVariables(in), in.host)
      game == processArguments(in.game, LaunchVariables(in), in.host)
  IN memoryArgs(in.settings) \o jvm \o ExtraFlags(in.settings.jvmArguments)
       \o (IF \E i \in DOMAIN jvm : jvm[i] \in flags THEN <<>>
           ELSE << <<"-cp">>, in.classpath >>)
       \o <<in.mainClass>> \o game

\* C34 as stated: the command's arguments are the memory flags, the rendered
\* JVM template arguments, the user's extra flags, '-cp' and the classpath if
\* and only if the rendered JVM template arguments hold no classpath flag,
\* the main class, the rendered game arguments.
C34_ArgumentVector ==
  avPc = "done" => avOut = ArgumentVector(avIn, ClasspathFlags)

\* C34, amended: as stated, the explicit '-cp' and classpath being added if
\* and only if no rendered JVM template argument is exactly '-cp'.
C34_ArgumentVectorCpLiteral ==
  avPc = "done" => avOut = ArgumentVector(avIn, {<<"-cp">>})

C34_Witness ==
  /\ avPc = "done"
  /\ \E i \in DOMAIN avOut : avOut[i] = <<"-cp">> /\ i < Len(avOut) - 1
  /\ Len(avIn.jvm) = 2 /\ avIn.jvm[1] = StringArg(<<"-cp">>)
  /\ avIn.settings.jvmArguments = <<"", "-Dx=1">>
  /\ avIn.game # <<>>

\* The base client archive path buildClasspath looks for.
BaseClientJar(def) ==
  ClientJarPath(IF def.inheritsFrom # NoParent THEN def.inheritsFrom ELSE def.id)

\* C37: the destination of the client-jar download task is the base client
\* archive path buildClasspath looks for, and after a successful download
\* stage that path is the last classpath entry, for every resolved
\* definition with a client download, merged ones included.
C37_ClientJarFetchedIsUsed ==
  cjDef.hasClient =>
    /\ cjPc \in {"enumerated", "downloaded", "built"} =>
         \E t \in DOMAIN cjRun.tasks :
           /\ cjRun.tasks[t].label = "client"
           /\ cjRun.tasks[t].destination = BaseClientJar(cjDef)
    /\ cjPc = "built" =>
         cjRun.classpath # <<>> /\ Last(cjRun.classpath) = BaseClientJar(cjDef)

\* The tasks whose outcome the .then callback has counted.
Counted ==
  {t \in Tasks : dl[t] = "settled"
                   /\ ~\E i \in DOMAIN mq : mq[i].kind = "then" /\ mq[i].p = t}
\* A step starts no task that was started before.
StartsOnlyQueued ==
  \A t \in DOMAIN dl :
    /\ (t \in DOMAIN dl' /\ dl[t] # "inflight" /\ dl'[t] = "inflight") => dl[t] = "queued"
    /\ (t \in DOMAIN dl' /\ dl[t] # "queued") => dl'[t] # "queued"

\* C35: in a run of downloadMultipleFiles a task is started only once, the
\* counters hold one count for each task whose callback has run, and on
\* return every task has been started and settled and successCount +
\* failureCount equals the number of tasks.
C35_StartedAndCountedOnce ==
  /\ [](counts.successCount + counts.failureCount = Cardinality(Counted))
  /\ [](poolPc = "returned" =>
          /\ \A t \in Tasks : dl[t] = "settled"
          /\ poolRet.successCount + poolRet.failureCount = nTasks)
  /\ [][StartsOnlyQueued]_vars

C35_Witness ==
  /\ poolPc = "returned" /\ nTasks = MaxTasks /\ parallelLimit = 2
  /\ poolRet.failureCount > 0 /\ poolRet.successCount > 0
  /\ Len(workers) > 1

\* C36: the tracked handle is cleared only by killRunningProcess or by the
\* exit or error event of the process it tracks at that moment, never by the
\* event of another process nor by the failure of a launch attempt, so the
\* most recently spawned process stays tracked while it is alive and unkilled.
C36_HandleClearedOnlyByOwner ==
  [][(runningProcess # 0 /\ runningProcess' = 0)
       => \/ nKill' = nKill + 1
          \/ proc'[runningProcess] # proc[runningProcess]]_vars

\* ---------------------------------------------------------------------------
\* C39: getVersionDetails terminates for every cache and manifest content,
\* inheritsFrom cycles and a self-naming parent included.  The call for a
\* version reads the same JSON each time it is made, so a call reaches its
\* return only if no nested call is made for a version whose own call is
\* still waiting for its parent: no version id is twice on the call stack.
C39_NoVersionAwaitsItself ==
  \A i \in DOMAIN gvStack : \A j \in DOMAIN gvStack :
    i # j => gvStack[i].id # gvStack[j].id

====
